---- MODULE Spec2Model ----
(***************************************************************************)
(* ErrorIQ: the error-analysis pipeline of MCPService                      *)
(* (backend/src/services/mcp.service.ts) and the routes that call it       *)
(* (backend/src/routes/mcp.ts); the error store and its POST route; the    *)
(* WebSocket fan-out of the server; the browser SDK (ErrorIQClient); the   *)
(* dashboard's TamboClient; and getErrors in its two modes.  Each part has *)
(* its own specification over the shared state.                            *)
(*                                                                         *)
(* Text is modelled character by character on TLA+ strings: toLowerCase,   *)
(* String.prototype.includes, RegExp.prototype.test and JSON.parse are     *)
(* computed, not assumed.  JavaScript values are tagged records            *)
(* [t |-> type, v |-> payload] so that a field may hold a value of any     *)
(* type, as it can after JSON.parse.                                       *)
(***************************************************************************)
EXTENDS Integers, Sequences, FiniteSets, TLC

(***************************************************************************)
(* JavaScript values                                                       *)
(***************************************************************************)
Undefined == [t |-> "undefined"]
Null == [t |-> "null"]
Str(s) == [t |-> "string", v |-> s]
Num(n) == [t |-> "number", v |-> n]
Bool(b) == [t |-> "boolean", v |-> b]
Arr(a) == [t |-> "array", v |-> a]
Obj(f) == [t |-> "object", v |-> f]
\* a value that is not data: a function object such as Object.prototype.toString
Fn(name) == [t |-> "function", v |-> name]

\* ToBoolean: undefined, null, "", 0 and false are falsy, everything else truthy
Truthy(x) ==
    CASE x.t = "undefined" -> FALSE
      [] x.t = "null" -> FALSE
      [] x.t = "string" -> x.v # ""
      [] x.t = "number" -> x.v # 0
      [] x.t = "boolean" -> x.v
      [] OTHER -> TRUE

\* a || b
Or(a, b) == IF Truthy(a) THEN a ELSE b

\* the properties every object literal inherits from Object.prototype
ObjectPrototype == {"constructor", "toString", "valueOf", "hasOwnProperty",
                    "isPrototypeOf", "propertyIsEnumerable", "toLocaleString", "__proto__"}

\* o[key] on an object literal: own property, else the prototype chain, else undefined
Get(o, key) ==
    IF key \in DOMAIN o.v THEN o.v[key]
    ELSE IF key \in ObjectPrototype THEN Fn(key)
    ELSE Undefined

(***************************************************************************)
(* Strings                                                                 *)
(***************************************************************************)
\* the character at position i, "" outside the string
CharAt(s, i) == IF i >= 1 /\ i <= Len(s) THEN SubSeq(s, i, i) ELSE ""

\* first index >= i of the one-character string c in s, 0 when there is none
IndexFrom(s, c, i) ==
    IF \E k \in i..Len(s) : CharAt(s, k) = c
    THEN CHOOSE k \in i..Len(s) :
             CharAt(s, k) = c /\ \A j \in i..(k - 1) : CharAt(s, j) # c
    ELSE 0

UpperChars == "ABCDEFGHIJKLMNOPQRSTUVWXYZ"
LowerChars == "abcdefghijklmnopqrstuvwxyz"
Digits == "0123456789"

LowerChar(c) ==
    LET k == IndexFrom(UpperChars, c, 1)
    IN  IF k = 0 THEN c ELSE CharAt(LowerChars, k)

RECURSIVE ToLowerCase(_)
\* String.prototype.toLowerCase, character by character (the string is split
\* in halves to keep the recursion shallow)
ToLowerCase(s) ==
    IF s = "" THEN ""
    ELSE IF Len(s) = 1 THEN LowerChar(s)
    ELSE ToLowerCase(SubSeq(s, 1, Len(s) \div 2))
         \o ToLowerCase(SubSeq(s, (Len(s) \div 2) + 1, Len(s)))

\* s starts with lit at position i
StartsAt(s, lit, i) ==
    /\ i >= 1
    /\ i + Len(lit) - 1 <= Len(s)
    /\ SubSeq(s, i, i + Len(lit) - 1) = lit

\* String.prototype.includes (case-sensitive substring search)
Includes(s, lit) == \E i \in 1..(Len(s) + 1) : StartsAt(s, lit, i)

RECURSIVE NumberToString(_)
\* decimal rendering of a non-negative integer
NumberToString(n) ==
    IF n < 10 THEN CharAt(Digits, n + 1)
    ELSE NumberToString(n \div 10) \o CharAt(Digits, (n % 10) + 1)

\* `${x}`: the string conversion a template literal applies
TemplateString(x) ==
    CASE x.t = "string" -> x.v
      [] x.t = "number" -> IF x.v < 0 THEN "-" \o NumberToString(0 - x.v)
                           ELSE NumberToString(x.v)
      [] x.t = "undefined" -> "undefined"
      [] x.t = "null" -> "null"
      [] x.t = "boolean" -> IF x.v THEN "true" ELSE "false"
      [] OTHER -> "[object Object]"

(***************************************************************************)
(* Regular expressions of ERROR_PATTERNS.  A pattern is a tuple of         *)
(* alternatives (a|b|c); an alternative is a tuple of parts, each a        *)
(* literal or one of the wildcards .* and .?                               *)
(***************************************************************************)
DotStar == ".*"
DotOpt == ".?"
LineTerminators == {"\n", "\r"}

\* no line terminator in s[i..j]: what a run of '.' may cover
NoLineTerminator(s, i, j) == \A k \in i..j : CharAt(s, k) \notin LineTerminators

RECURSIVE MatchParts(_, _, _, _)
\* parts[k..] matches a prefix of s[i..]
MatchParts(parts, k, s, i) ==
    IF k > Len(parts) THEN TRUE
    ELSE IF parts[k] = DotStar
         THEN \E j \in i..(Len(s) + 1) :
                  NoLineTerminator(s, i, j - 1) /\ MatchParts(parts, k + 1, s, j)
    ELSE IF parts[k] = DotOpt
         THEN \/ MatchParts(parts, k + 1, s, i)
              \/ /\ i <= Len(s)
                 /\ CharAt(s, i) \notin LineTerminators
                 /\ MatchParts(parts, k + 1, s, i + 1)
    ELSE /\ StartsAt(s, parts[k], i)
         /\ MatchParts(parts, k + 1, s, i + Len(parts[k]))

\* RegExp.prototype.test of /alt1|alt2|.../i (no g flag: no lastIndex state)
RegExpTest(pattern, s) ==
    \E folded \in {ToLowerCase(s)} :
        \E a \in 1..Len(pattern) : \E i \in 1..(Len(folded) + 1) :
            MatchParts(pattern[a], 1, folded, i)

ERROR_PATTERNS == <<
    [pattern |-> << <<"cannot read property">>, <<"undefined is not">>, <<"null is not">>,
                    <<"typeerror", DotStar, "undefined">>, <<"typeerror", DotStar, "null">> >>,
     type |-> "null_pointer", category |-> "frontend"],
    [pattern |-> << <<"timeout">>, <<"econnreset">>, <<"etimedout">>, <<"gateway timeout">>,
                    <<"502">>, <<"504">>, <<"econnrefused">> >>,
     type |-> "api_timeout", category |-> "backend"],
    [pattern |-> << <<"unauthorized">>, <<"forbidden">>, <<"401">>, <<"403">>, <<"jwt">>,
                    <<"token", DotStar, "expired">>, <<"invalid", DotStar, "token">>,
                    <<"authentication">> >>,
     type |-> "auth_failure", category |-> "backend"],
    [pattern |-> << <<"database">>, <<"mongodb">>, <<"postgres">>, <<"mysql">>,
                    <<"connection pool">>, <<"query failed">>, <<"deadlock">> >>,
     type |-> "db_error", category |-> "database"],
    [pattern |-> << <<"cors">>, <<"cross-origin">>, <<"access-control-allow">>,
                    <<"blocked by cors">> >>,
     type |-> "cors_error", category |-> "frontend"],
    [pattern |-> << <<"memory">>, <<"heap">>, <<"out of memory">>, <<"allocation failed">>,
                    <<"gc overhead">> >>,
     type |-> "memory_leak", category |-> "infrastructure"],
    [pattern |-> << <<"rate limit">>, <<"too many requests">>, <<"429">>, <<"throttl">> >>,
     type |-> "rate_limit", category |-> "backend"],
    [pattern |-> << <<"websocket">>, <<"socket", DotStar, "closed">>,
                    <<"connection", DotStar, "lost">>, <<"ws:">> >>,
     type |-> "websocket_error", category |-> "frontend"],
    [pattern |-> << <<"stripe">>, <<"twilio">>, <<"sendgrid">>, <<"aws">>, <<"s3">>,
                    <<"cloudinary">>, <<"third", DotOpt, "party">> >>,
     type |-> "third_party_failure", category |-> "third_party"],
    [pattern |-> << <<"config">>, <<"environment">>, <<"env", DotStar, "undefined">>,
                    <<"missing", DotStar, "variable">>, <<"not configured">> >>,
     type |-> "config_error", category |-> "infrastructure"] >>

\* an array literal of strings
StrArr(seq) == Arr([i \in DOMAIN seq |-> Str(seq[i])])

COMPONENT_MAP == Obj([
    null_pointer |-> StrArr(<<"UserJourney", "StackTrace", "SimilarErrors", "SuggestedFix">>),
    api_timeout |-> StrArr(<<"ErrorTimeline", "InfrastructureHealth", "ImpactMetrics", "QuickActions">>),
    auth_failure |-> StrArr(<<"ImpactMetrics", "UserJourney", "SuggestedFix", "QuickActions">>),
    db_error |-> StrArr(<<"InfrastructureHealth", "ErrorTimeline", "SimilarErrors", "QuickActions">>),
    cors_error |-> StrArr(<<"StackTrace", "SuggestedFix", "RelatedDocs">>),
    memory_leak |-> StrArr(<<"ErrorTimeline", "InfrastructureHealth", "ImpactMetrics">>),
    rate_limit |-> StrArr(<<"ErrorTimeline", "ImpactMetrics", "QuickActions">>),
    websocket_error |-> StrArr(<<"ErrorTimeline", "InfrastructureHealth", "UserJourney">>),
    third_party_failure |-> StrArr(<<"InfrastructureHealth", "ErrorTimeline", "QuickActions", "SimilarErrors">>),
    config_error |-> StrArr(<<"StackTrace", "SuggestedFix", "RelatedDocs">>),
    unknown |-> StrArr(<<"StackTrace", "ErrorTimeline", "ImpactMetrics", "SimilarErrors">>)])

ErrorType == {"null_pointer", "api_timeout", "auth_failure", "db_error", "cors_error",
              "memory_leak", "rate_limit", "websocket_error", "third_party_failure",
              "config_error", "unknown"}

(***************************************************************************)
(* MCPService: classification, severity, components                        *)
(***************************************************************************)
RECURSIVE LastMatch(_, _)
\* mutant of FirstMatch: the loop runs over the rules from the last to the first
LastMatch(combined, i) ==
    IF i > Len(ERROR_PATTERNS) THEN [type |-> "unknown", category |-> "frontend"]
    ELSE IF RegExpTest(ERROR_PATTERNS[Len(ERROR_PATTERNS) + 1 - i].pattern, combined)
         THEN [type |-> ERROR_PATTERNS[Len(ERROR_PATTERNS) + 1 - i].type,
               category |-> ERROR_PATTERNS[Len(ERROR_PATTERNS) + 1 - i].category]
    ELSE LastMatch(combined, i + 1)

RECURSIVE FirstMatch(_, _)
\* the for-of loop of identifyErrorType from rule i on
FirstMatch(combined, i) ==
    IF i > Len(ERROR_PATTERNS) THEN [type |-> "unknown", category |-> "frontend"]
    ELSE IF RegExpTest(ERROR_PATTERNS[i].pattern, combined)
         THEN [type |-> ERROR_PATTERNS[i].type, category |-> ERROR_PATTERNS[i].category]
    ELSE FirstMatch(combined, i + 1)

\* `${errorMessage} ${stackTrace || ''}`.toLowerCase()
Combined(errorMessage, stackTrace) ==
    ToLowerCase(TemplateString(errorMessage) \o " " \o TemplateString(Or(stackTrace, Str(""))))

identifyErrorType(errorMessage, stackTrace) ==
    FirstMatch(Combined(errorMessage, stackTrace), 1)

\* mutant of FileIncludes: the path is lower-cased before the search
FileIncludesAnyCase(context, marker) ==
    IF context.file.t \in {"undefined", "null"} THEN FALSE
    ELSE Includes(ToLowerCase(context.file.v), marker)

\* context.file?.includes(marker): undefined when file is undefined or null
FileIncludes(context, marker) ==
    IF context.file.t \in {"undefined", "null"} THEN FALSE
    ELSE Includes(context.file.v, marker)

\* context.file?.includes(...) raises a TypeError: ?. stops at undefined and
\* null only, and of the other values only strings and arrays have `includes`
calculateSeverityThrows(context) ==
    context.file.t \notin {"undefined", "null", "string", "array"}

severityMap == [
    null_pointer |-> "high", api_timeout |-> "high", auth_failure |-> "critical",
    db_error |-> "critical", cors_error |-> "medium", memory_leak |-> "high",
    rate_limit |-> "medium", websocket_error |-> "medium", third_party_failure |-> "high",
    config_error |-> "medium", unknown |-> "medium"]

\* mutant of calculateSeverity: the 'auth' marker is missing
calculateSeverityNoAuth(errorType, context) ==
    IF \/ FileIncludes(context, "checkout")
       \/ FileIncludes(context, "payment")
    THEN "critical"
    ELSE severityMap[errorType]

calculateSeverity(errorType, context) ==
    IF \/ FileIncludes(context, "checkout")
       \/ FileIncludes(context, "payment")
       \/ FileIncludes(context, "auth")
    THEN "critical"
    ELSE severityMap[errorType]

\* COMPONENT_MAP[errorType] || COMPONENT_MAP.unknown
getSuggestedComponents(errorType) ==
    Or(Get(COMPONENT_MAP, errorType), Get(COMPONENT_MAP, "unknown"))

(***************************************************************************)
(* The template advisor (generateMockAnalysis).  Each template keeps the   *)
(* source's texts; suggestedFix.code is a multi-line snippet in the        *)
(* source and is kept by its first line.                                   *)
(***************************************************************************)
\* mutant of Tpl: the confidence is on a scale of 0..200
TplDoubled(rootCause, explanation, code, description, confidence, tips, patterns) == Obj([
    rootCause |-> Str(rootCause),
    explanation |-> Str(explanation),
    suggestedFix |-> Obj([code |-> Str(code), description |-> Str(description),
                          confidence |-> Num(confidence * 2)]),
    preventionTips |-> StrArr(tips),
    similarPatterns |-> StrArr(patterns)])

\* one entry of analysisTemplates
Tpl(rootCause, explanation, code, description, confidence, tips, patterns) == Obj([
    rootCause |-> Str(rootCause),
    explanation |-> Str(explanation),
    suggestedFix |-> Obj([code |-> Str(code), description |-> Str(description),
                          confidence |-> Num(confidence)]),
    preventionTips |-> StrArr(tips),
    similarPatterns |-> StrArr(patterns)])

analysisTemplates(context) == Obj([
    null_pointer |-> Tpl(
        "Null/undefined reference detected at "
            \o TemplateString(Or(context.file, Str("unknown file"))) \o ":"
            \o TemplateString(Or(context.line, Str("unknown line")))
            \o ". The variable being accessed is undefined at runtime.",
        "This error occurs when trying to access a property on an undefined or null value. Common causes: 1) Data not loaded yet, 2) API response differs from expected, 3) User state not initialized.",
        "// Before (causes error)",
        "Use optional chaining (?.) and nullish coalescing (??) for safe property access.",
        92,
        <<"Enable TypeScript strict mode", "Add proper loading states before accessing data",
          "Use defensive programming patterns", "Write unit tests for edge cases">>,
        <<"TypeError: Cannot read property 'user' (PR #234)",
          "Cannot access 'profile' of undefined (PR #189)">>),
    api_timeout |-> Tpl(
        "API request exceeded timeout threshold. Server unresponsive or network congestion detected.",
        "The request to your backend API took longer than the configured timeout. This usually indicates: 1) Server under heavy load, 2) Database query performance issues, 3) Network connectivity problems.",
        "// Add timeout handling and retry logic",
        "Implement retry logic with exponential backoff and proper timeout handling.",
        85,
        <<"Add proper timeout configuration", "Implement circuit breaker pattern",
          "Monitor API response times", "Add request queuing for heavy operations">>,
        <<"502 Gateway Timeout on /api/payments", "ETIMEDOUT on database queries">>),
    auth_failure |-> Tpl(
        "Authentication token expired or invalid. User session may have timed out.",
        "The user's authentication credentials are no longer valid. This could be due to: 1) Token expiration, 2) User logged out elsewhere, 3) Token revocation, 4) Incorrect token format.",
        "// Implement token refresh logic",
        "Implement automatic token refresh and graceful session expiration handling.",
        88,
        <<"Implement automatic token refresh", "Add token expiration warnings",
          "Handle 401 responses globally", "Use secure token storage">>,
        <<"JWT token expired in checkout flow", "401 Unauthorized on protected routes">>),
    db_error |-> Tpl(
        "Database connection pool exhausted or query timeout. High database load detected.",
        "The database is struggling to handle the current load. Possible causes: 1) Connection pool exhausted, 2) Slow queries blocking connections, 3) Database server under strain.",
        "// Optimize database connection handling",
        "Increase connection pool size and add query timeouts to prevent blocking.",
        80,
        <<"Monitor database connection pool", "Add query timeouts", "Optimize slow queries",
          "Consider read replicas for heavy loads">>,
        <<"Connection pool exhausted during peak", "Query timeout on users table">>),
    cors_error |-> Tpl(
        "Cross-Origin Resource Sharing (CORS) policy blocking request.",
        "The browser is blocking the request due to CORS restrictions.",
        "// Server-side: Allow CORS",
        "Configure CORS on your backend to allow requests from your frontend domain.",
        95,
        <<"Configure CORS properly", "Use same-origin when possible">>,
        <<"CORS blocked on API calls">>),
    memory_leak |-> Tpl(
        "Memory not being released properly, leading to increasing memory usage.",
        "Components or event listeners are not being cleaned up properly.",
        "// Clean up in useEffect",
        "Always clean up event listeners and subscriptions in useEffect return.",
        85,
        <<"Clean up side effects", "Use React DevTools Profiler">>,
        <<"Memory growing over time">>),
    rate_limit |-> Tpl(
        "API rate limit exceeded. Too many requests in short time period.",
        "Your application is making too many requests to the API.",
        "// Implement request throttling",
        "Add request throttling and implement backoff strategies.",
        90,
        <<"Implement request throttling", "Cache responses">>,
        <<"429 Too Many Requests">>),
    websocket_error |-> Tpl(
        "WebSocket connection lost unexpectedly.",
        "The real-time connection was interrupted.",
        "// Auto-reconnect WebSocket",
        "Implement automatic WebSocket reconnection with backoff.",
        88,
        <<"Implement reconnection logic", "Add heartbeat pings">>,
        <<"WebSocket disconnected unexpectedly">>),
    third_party_failure |-> Tpl(
        "Third-party service returned an error or is unavailable.",
        "An external service your app depends on is having issues.",
        "// Add fallback for third-party failures",
        "Add graceful fallbacks and alerting for third-party failures.",
        75,
        <<"Add service health checks", "Implement fallbacks">>,
        <<"Stripe API timeout", "S3 upload failed">>),
    config_error |-> Tpl(
        "Missing or incorrect configuration value.",
        "An environment variable or configuration is missing or invalid.",
        "// Validate config at startup",
        "Add startup validation for required configuration.",
        95,
        <<"Validate config at startup", "Use config schemas">>,
        <<"Undefined environment variable">>),
    unknown |-> Tpl(
        "Unable to automatically categorize this error.",
        "This error pattern is not recognized. Manual investigation recommended.",
        "// Add comprehensive error handling",
        "Add error handling and logging for investigation.",
        50,
        <<"Add detailed logging", "Set up error monitoring">>,
        << >>)])

\* analysisTemplates[errorType] || analysisTemplates.unknown (category is not used)
generateMockAnalysis(context, errorType, category) ==
    Or(Get(analysisTemplates(context), errorType), Get(analysisTemplates(context), "unknown"))

(***************************************************************************)
(* JSON.parse, for texts without string escapes, fractions and exponents   *)
(* (none of the modelled replies contains one).  A parse step returns      *)
(* [ok, v, next]; ok = FALSE is the SyntaxError JSON.parse throws.         *)
(***************************************************************************)
JsonWhitespace == {" ", "\t", "\n", "\r"}
ParseFail == [ok |-> FALSE]
ParseOk(v, next) == [ok |-> TRUE, v |-> v, next |-> next]

RECURSIVE SkipWs(_, _)
SkipWs(s, i) ==
    IF i <= Len(s) /\ CharAt(s, i) \in JsonWhitespace THEN SkipWs(s, i + 1) ELSE i

IsDigit(c) == c # "" /\ IndexFrom(Digits, c, 1) # 0

RECURSIVE DigitsEnd(_, _)
\* first index >= i that holds no digit
DigitsEnd(s, i) == IF IsDigit(CharAt(s, i)) THEN DigitsEnd(s, i + 1) ELSE i

RECURSIVE StringToNat(_)
StringToNat(d) ==
    IF Len(d) = 1 THEN IndexFrom(Digits, d, 1) - 1
    ELSE 10 * StringToNat(SubSeq(d, 1, Len(d) - 1))
         + (IndexFrom(Digits, CharAt(d, Len(d)), 1) - 1)

\* a string token starting at the quote s[i]; control characters and the
\* backslash end the supported grammar
ParseString(s, i) ==
    LET Body(close) ==
            IF close = 0 THEN ParseFail
            ELSE IF \E k \in (i + 1)..(close - 1) : CharAt(s, k) \in {"\n", "\r", "\t", "\\"}
                 THEN ParseFail
            ELSE ParseOk(Str(SubSeq(s, i + 1, close - 1)), close + 1)
    IN  Body(IndexFrom(s, "\"", i + 1))

\* an integer token starting at s[i]
ParseNumber(s, i) ==
    LET neg == CharAt(s, i) = "-"
        from == IF neg THEN i + 1 ELSE i
        Digs(to) ==
            IF to = from THEN ParseFail
            ELSE IF to - from > 1 /\ CharAt(s, from) = "0" THEN ParseFail
            ELSE ParseOk(Num(IF neg THEN 0 - StringToNat(SubSeq(s, from, to - 1))
                             ELSE StringToNat(SubSeq(s, from, to - 1))), to)
    IN  Digs(DigitsEnd(s, from))

RECURSIVE ParseValue(_, _)
RECURSIVE ParseMembers(_, _, _)
RECURSIVE ParseElements(_, _, _)

\* members of an object from position i on; acc holds the members read so far
\* (a repeated key keeps its last value)
ParseMembers(s, i, acc) ==
    LET AfterValue(key, val) ==
            LET after == SkipWs(s, val.next)
                acc2 == (key.v.v :> val.v) @@ acc
            IN  IF CharAt(s, after) = "," THEN ParseMembers(s, after + 1, acc2)
                ELSE IF CharAt(s, after) = "}" THEN ParseOk(Obj(acc2), after + 1)
                ELSE ParseFail
        Value(key, val) == IF ~val.ok THEN ParseFail ELSE AfterValue(key, val)
        Colon(key, colon) ==
            IF CharAt(s, colon) # ":" THEN ParseFail
            ELSE Value(key, ParseValue(s, colon + 1))
        Key(key) == IF ~key.ok THEN ParseFail ELSE Colon(key, SkipWs(s, key.next))
        Start(k) == IF CharAt(s, k) = "\"" THEN Key(ParseString(s, k)) ELSE ParseFail
    IN  Start(SkipWs(s, i))

\* elements of an array from position i on
ParseElements(s, i, acc) ==
    LET AfterValue(val, after) ==
            IF CharAt(s, after) = "," THEN ParseElements(s, after + 1, Append(acc, val.v))
            ELSE IF CharAt(s, after) = "]" THEN ParseOk(Arr(Append(acc, val.v)), after + 1)
            ELSE ParseFail
        Value(val) == IF ~val.ok THEN ParseFail ELSE AfterValue(val, SkipWs(s, val.next))
    IN  Value(ParseValue(s, i))

ParseValue(s, i) ==
    LET At(j, c) ==
            IF c = "{"
            THEN IF CharAt(s, SkipWs(s, j + 1)) = "}"
                 THEN ParseOk(Obj([x \in {} |-> Null]), SkipWs(s, j + 1) + 1)
                 ELSE ParseMembers(s, j + 1, [x \in {} |-> Null])
            ELSE IF c = "["
            THEN IF CharAt(s, SkipWs(s, j + 1)) = "]"
                 THEN ParseOk(Arr(<< >>), SkipWs(s, j + 1) + 1)
                 ELSE ParseElements(s, j + 1, << >>)
            ELSE IF c = "\"" THEN ParseString(s, j)
            ELSE IF c = "-" \/ IsDigit(c) THEN ParseNumber(s, j)
            ELSE IF StartsAt(s, "true", j) THEN ParseOk(Bool(TRUE), j + 4)
            ELSE IF StartsAt(s, "false", j) THEN ParseOk(Bool(FALSE), j + 5)
            ELSE IF StartsAt(s, "null", j) THEN ParseOk(Null, j + 4)
            ELSE ParseFail
        Skip(j) == At(j, CharAt(s, j))
    IN  Skip(SkipWs(s, i))

\* JSON.parse(text): the whole text must be one value
JSONParse(text) ==
    LET Whole(r) == IF r.ok /\ SkipWs(text, r.next) = Len(text) + 1 THEN r ELSE ParseFail
    IN  Whole(ParseValue(text, 1))

\* last index <= i of the one-character string c in s, 0 when there is none
LastIndexOf(s, c, i) ==
    IF \E k \in 1..i : CharAt(s, k) = c
    THEN CHOOSE k \in 1..i :
             CharAt(s, k) = c /\ \A j \in (k + 1)..i : CharAt(s, j) # c
    ELSE 0

\* String(output).match(/\{[\s\S]*\}/): greedy, from the first '{' to the
\* last '}' after it; "" stands for the null of a failed match
JsonMatch(text) ==
    LET Between(open, close) ==
            IF open = 0 \/ close < open THEN "" ELSE SubSeq(text, open, close)
    IN  Between(IndexFrom(text, "{", 1), LastIndexOf(text, "}", Len(text)))

(***************************************************************************)
(* The result of analyzeError                                               *)
(***************************************************************************)
\* Math.floor(Math.random() * n) for the three draws of estimatedImpact: the
\* least and the greatest outcome of each
RandomDraws == {<<0, 0, 0>>, <<99, 499, 19999>>}

\* mutant of Assemble: the category of the analysis, when it has one, is kept
AssembleAnalysisCategory(errorType, category, severity, suggestedComponents, analysis, draw) == [
    errorType |-> errorType,
    category |-> IF Truthy(Get(analysis, "category")) THEN Get(analysis, "category").v
                 ELSE category,
    severity |-> severity,
    suggestedComponents |-> suggestedComponents,
    rootCause |-> Or(Get(analysis, "rootCause"), Str("Unable to determine root cause")),
    explanation |-> Or(Get(analysis, "explanation"), Str("Further investigation required")),
    suggestedFix |-> Or(Get(analysis, "suggestedFix"),
                        Obj([code |-> Str("// Add error handling"),
                             description |-> Str("Add proper error handling for this case"),
                             confidence |-> Num(50)])),
    preventionTips |-> Or(Get(analysis, "preventionTips"), Arr(<< >>)),
    similarPatterns |-> Or(Get(analysis, "similarPatterns"), Arr(<< >>)),
    estimatedImpact |-> [affectedUsers |-> draw[1] + 10, sessions |-> draw[2] + 50,
                         revenue |-> draw[3] + 1000,
                         regionsAffected |-> <<"US-East", "US-West">>]]

\* mutant of Assemble: the severity of the analysis, when it has one, is kept
AssembleAnalysisSeverity(errorType, category, severity, suggestedComponents, analysis, draw) == [
    errorType |-> errorType,
    category |-> category,
    severity |-> IF Truthy(Get(analysis, "severity")) THEN Get(analysis, "severity").v
                 ELSE severity,
    suggestedComponents |-> suggestedComponents,
    rootCause |-> Or(Get(analysis, "rootCause"), Str("Unable to determine root cause")),
    explanation |-> Or(Get(analysis, "explanation"), Str("Further investigation required")),
    suggestedFix |-> Or(Get(analysis, "suggestedFix"),
                        Obj([code |-> Str("// Add error handling"),
                             description |-> Str("Add proper error handling for this case"),
                             confidence |-> Num(50)])),
    preventionTips |-> Or(Get(analysis, "preventionTips"), Arr(<< >>)),
    similarPatterns |-> Or(Get(analysis, "similarPatterns"), Arr(<< >>)),
    estimatedImpact |-> [affectedUsers |-> draw[1] + 10, sessions |-> draw[2] + 50,
                         revenue |-> draw[3] + 1000,
                         regionsAffected |-> <<"US-East", "US-West">>]]

\* the object literal analyzeError returns
Assemble(errorType, category, severity, suggestedComponents, analysis, draw) == [
    errorType |-> errorType,
    category |-> category,
    severity |-> severity,
    suggestedComponents |-> suggestedComponents,
    rootCause |-> Or(Get(analysis, "rootCause"), Str("Unable to determine root cause")),
    explanation |-> Or(Get(analysis, "explanation"), Str("Further investigation required")),
    suggestedFix |-> Or(Get(analysis, "suggestedFix"),
                        Obj([code |-> Str("// Add error handling"),
                             description |-> Str("Add proper error handling for this case"),
                             confidence |-> Num(50)])),
    preventionTips |-> Or(Get(analysis, "preventionTips"), Arr(<< >>)),
    similarPatterns |-> Or(Get(analysis, "similarPatterns"), Arr(<< >>)),
    estimatedImpact |-> [affectedUsers |-> draw[1] + 10, sessions |-> draw[2] + 50,
                         revenue |-> draw[3] + 1000,
                         regionsAffected |-> <<"US-East", "US-West">>]]

\* MCPService.initialize: the fields the constructor leaves
initialize(bytezApiKey) ==
    IF Truthy(bytezApiKey) /\ bytezApiKey # Str("your_bytez_api_key_here")
    THEN [bytezClient |-> TRUE, useRealAI |-> TRUE, initialized |-> TRUE]
    ELSE [bytezClient |-> FALSE, useRealAI |-> FALSE, initialized |-> TRUE]

(***************************************************************************)
(* Outcomes of the external call and of an async method                    *)
(***************************************************************************)
\* the promise of model.run: rejected (transport error), or resolved with
\* { error, output }
Rejects == [kind |-> "rejects"]
Resolves(error, output) == [kind |-> "resolves", error |-> error, output |-> output]

\* an async method's outcome: the value returned, or the exception raised
Returned(v) == [threw |-> FALSE, value |-> v]
Threw == [threw |-> TRUE]

(***************************************************************************)
(* Inputs                                                                  *)
(***************************************************************************)
\* the most members a generated reply object holds
MaxMembers == 2
\* the most words a generated request message holds
MaxWords == 2

\* process.env.BYTEZ_API_KEY
EnvKeys == {Undefined, Str(""), Str("your_bytez_api_key_here"), Str("bz_live_key")}

ReportMessages == {
    Str(""),
    Str("TypeError: Cannot read property 'profile' of undefined"),
    Str("502 Gateway Timeout"),
    Str("JWT token expired"),
    Str("Database query timeout"),
    Str("MongoDB deadlock detected"),
    Str("Blocked by CORS policy"),
    Str("JavaScript heap out of memory"),
    Str("429 Too Many Requests"),
    Str("WebSocket connection lost"),
    Str("Stripe charge declined"),
    Str("Missing environment variable API_URL"),
    Str("Something odd happened")}

ReportStacks == {Undefined, Str("Error: timeout\n    at Pool.query (node_modules/mongodb/lib/pool.js:88)")}

ReportFiles == {
    Undefined,
    Str("src/checkout/processOrder.ts"),
    Str("src/api/client.ts"),
    Str("src/Payment/CheckoutForm.tsx"),
    Str("src/oauth/callback.ts")}

ReportLines == {Undefined, Num(42)}

\* ErrorContext values handed to analyzeError
Reports == [message : ReportMessages, stack : ReportStacks, file : ReportFiles,
            line : ReportLines]

\* members a reply object is made of
MemberTexts == <<
    "\"rootCause\":\"Stale cache entry\"",
    "\"explanation\":\"The cache outlives the session\"",
    "\"suggestedFix\":{\"code\":\"cache.clear()\",\"description\":\"Clear on logout\",\"confidence\":87}",
    "\"suggestedFix\":{\"code\":\"cache.clear()\",\"description\":\"Clear on logout\",\"confidence\":150}",
    "\"suggestedFix\":{\"code\":\"cache.clear()\"}",
    "\"preventionTips\":[\"Expire entries\"]",
    "\"similarPatterns\":[]",
    "\"errorType\":\"unknown\",\"category\":\"database\",\"severity\":\"low\",\"suggestedComponents\":[]" >>

Min(S) == CHOOSE x \in S : \A y \in S : x <= y

RECURSIVE JoinMembers(_)
\* the members with the indices S, in index order, separated by commas
JoinMembers(S) ==
    IF S = {} THEN ""
    ELSE IF Cardinality(S) = 1 THEN MemberTexts[Min(S)]
    ELSE MemberTexts[Min(S)] \o "," \o JoinMembers(S \ {Min(S)})

ObjectTexts ==
    {"{" \o JoinMembers(S) \o "}" :
        S \in {T \in SUBSET (1..Len(MemberTexts)) : Cardinality(T) <= MaxMembers}}

\* replies that carry a JSON object and nothing else
ObjectReplies == {Resolves(Undefined, Str(t)) : t \in ObjectTexts}

\* replies with prose around the object
ProseReplies == {
    Resolves(Undefined, Str("Here is the analysis:\n{\"rootCause\":\"Stale cache entry\"}\nLet me know if you need more.")),
    Resolves(Undefined, Str("{\"rootCause\":\"Stale cache entry\"} Wrap the call in try {} to be safe."))}

\* transport error, service-reported error, no output, no JSON object, bad JSON
FailureReplies == {
    Rejects,
    Resolves(Str("Model is overloaded"), Undefined),
    Resolves(Str("Quota exceeded"), Str("{\"rootCause\":\"Stale cache entry\"}")),
    Resolves(Undefined, Undefined),
    Resolves(Null, Str("")),
    Resolves(Undefined, Str("I could not analyze this error.")),
    Resolves(Undefined, Str("{rootCause: Stale cache entry}"))}

ModelReplies == FailureReplies \cup ProseReplies \cup ObjectReplies

(***************************************************************************)
(* generateAIAnalysis after model.run has settled.  The pure text          *)
(* functions are tabulated over the inputs of the model, each entry        *)
(* computed by the function itself.                                        *)
(***************************************************************************)
\* identifyErrorType over the reports
Identified ==
    [m \in ReportMessages, st \in ReportStacks |-> identifyErrorType(m, st)]

\* the output values of the replies
Outputs == {r.output : r \in ModelReplies \ {Rejects}}

\* String(output).match(/\{[\s\S]*\}/)?.[0] over the outputs
ExtractedJson == [o \in Outputs |-> JsonMatch(TemplateString(o))]

\* JSON.parse(jsonMatch[0]) over the outputs
ParsedJson == [o \in Outputs |-> JSONParse(ExtractedJson[o])]

\* mutant of generateAIAnalysis: no try/catch around the call and the parse
generateAIAnalysisNoCatch(context, errorType, reply) ==
    LET fallback == Returned(generateMockAnalysis(context, errorType, "frontend"))
        Parsed(parsed) == IF ~parsed.ok THEN Threw ELSE Returned(parsed.v)
    IN  IF reply.kind = "rejects" THEN Threw
        ELSE IF Truthy(reply.error) THEN Threw
        ELSE IF ~Truthy(reply.output) THEN fallback
        ELSE IF ExtractedJson[reply.output] = "" THEN fallback
        ELSE Parsed(ParsedJson[reply.output])

\* the try block from `if (error)` on, the catch block and the fallback
generateAIAnalysis(context, errorType, reply) ==
    LET fallback == Returned(generateMockAnalysis(context, errorType, "frontend"))
        Parsed(parsed) == IF ~parsed.ok THEN fallback ELSE Returned(parsed.v)
    IN  IF reply.kind = "rejects" THEN fallback
        ELSE IF Truthy(reply.error) THEN fallback
        ELSE IF ~Truthy(reply.output) THEN fallback
        ELSE IF ExtractedJson[reply.output] = "" THEN fallback
        ELSE Parsed(ParsedJson[reply.output])

\* the reply of the external service is one of the failures: transport error,
\* service-reported error, empty output, no JSON object, JSON that does not parse
ReplyFailed(reply) ==
    \/ reply.kind = "rejects"
    \/ Truthy(reply.error)
    \/ ~Truthy(reply.output)
    \/ ExtractedJson[reply.output] = ""
    \/ ~ParsedJson[reply.output].ok

\* mutant of AfterRun: a failed reply sends generateAIAnalysis back to model.run once
AfterRunRetry(reply, n) == IF ReplyFailed(reply) /\ n < 2 THEN "awaiting" ELSE "returned"

\* where generateAIAnalysis stands once its n-th model.run has settled: at its
\* return, with the parsed object or through the catch block with the
\* fallback; no path leads back to model.run
AfterRun(reply, n) == "returned"

(***************************************************************************)
(* State                                                                   *)
(***************************************************************************)
None == [t |-> "none"]

VARIABLES
    service,              \* MCPService fields: bytezClient (set or null), useRealAI, initialized
    pc,                   \* analyzeError: "idle", "awaiting" (model.run pending), "returned"
    context,              \* analyzeError: the ErrorContext argument
    errorType,            \* analyzeError: local
    category,             \* analyzeError: local
    severity,             \* analyzeError: local
    suggestedComponents,  \* analyzeError: local
    modelReply,           \* what model.run settled with in this call, None without a call
    runs,                 \* how often this call has invoked model.run
    result,               \* the settled promise of analyzeError
    prev,                 \* the preceding call on the same report: its context and the
                          \* errorType, category, severity, suggestedComponents it returned
    response,             \* the last response of the /identify and /components routes
    stream,               \* the /stream handler: position, request body, events written
    calls,                \* concurrent analyzeError calls: position, argument, outcome
    frames,               \* the activation records of the concurrent analyzeError calls
    listening,            \* the HTTP server accepts requests (startServer has run)
    connected,            \* ErrorService.connected: MongoDB mode, else the in-memory array
    inMemoryErrors,       \* ErrorService.inMemoryErrors
    collection,           \* the documents of the MongoDB collection `errors`
    posts,                \* the POST /api/errors requests: position, body, locals, trace
    submissions,          \* createError calls made so far (the clock and the id source)
    clients,              \* index.ts: the Set of connected WebSocket clients
    readyState,           \* the readyState of every server-side WebSocket
    outbox,               \* the messages written to every server-side WebSocket
    ended,                \* the sockets whose 'close' or 'error' event has been handled
    broadcasts,           \* broadcastError calls made so far
    config,               \* ErrorIQClient.config, None before the constructor has run
    initialized,          \* ErrorIQClient.initialized
    breadcrumbs,          \* ErrorIQClient.breadcrumbs
    originalConsoleError, \* ErrorIQClient.originalConsoleError
    consoleError,         \* what console.error is bound to: the native function or the wrapper
    listeners,            \* the sets of window and document listeners the client has added
    fetches,              \* the request bodies sendError posted in the latest captureError run
    added,                \* the breadcrumbs passed to addBreadcrumb since the buffer was last empty
    tamboWs,              \* TamboClient.ws: a browser WebSocket, 0 for null
    wsState,              \* the readyState of every WebSocket the TamboClient has created
    reconnectAttempts,    \* TamboClient.reconnectAttempts
    timers,               \* the setTimeout callbacks of attemptReconnect that are pending
    subscribed,           \* wsListeners holds a '*' callback (useRealtimeUpdates is mounted)
    delivered,            \* how often that callback ran for the latest server message
    disconnected,         \* disconnect() was called and the application has not called connect() since
    stored,               \* the records held alike by a MongoDB-backed and a fallback ErrorService
    listing               \* the getErrors call in progress: its arguments and what each service returns

analysisVars == <<service, pc, context, errorType, category, severity,
                  suggestedComponents, modelReply, runs, result, prev>>

streamVars == <<stream>>

concurrentVars == <<calls, frames>>

storeVars == <<listening, connected, inMemoryErrors, collection, posts, submissions>>

socketVars == <<clients, readyState, outbox, ended, broadcasts>>

\* the state outside the analysis service and the error store
sdkVars == <<config, initialized, breadcrumbs, originalConsoleError, consoleError,
             listeners, fetches, added>>

tamboVars == <<tamboWs, wsState, reconnectAttempts, timers, subscribed, delivered,
               disconnected>>

listVars == <<stored, listing>>

peerVars == <<socketVars, sdkVars, tamboVars, listVars>>

vars == <<analysisVars, response, streamVars, concurrentVars, storeVars, peerVars>>

\* the most analyzeError calls in flight at once
MaxRequests == 2
\* the most POST /api/errors requests of a run
MaxPosts == 2

\* the most WebSocket connections the server accepts in a run
MaxSockets == 2
\* the most broadcastError calls of a run
MaxBroadcasts == 1

\* the greatest maxBreadcrumbs a client is configured with
MaxCrumbs == 2
\* the most init() calls of a run that add listeners
MaxInits == 2
\* the most addBreadcrumb calls between two resets: one more than the buffer holds
MaxAdds == MaxCrumbs + 1

\* the most WebSockets a TamboClient creates in a run
MaxWs == 3

Requests == 1..MaxRequests
TamboSockets == 1..MaxWs
PostIds == 1..MaxPosts
Sockets == 1..MaxSockets

\* the /stream handler before a request
StreamIdle == [pc |-> "idle", body |-> None, i |-> 0, written |-> << >>, ended |-> FALSE,
               status |-> 0, locals |-> None]

\* an analyzeError call that has not begun
CallIdle == [pc |-> "idle", context |-> None, reply |-> None, result |-> None]

\* a POST /api/errors request that has not arrived
PostIdle == [pc |-> "idle", body |-> None, fingerprint |-> "", now |-> 0,
             existing |-> None, created |-> None, trace |-> << >>]

\* seedMockData: the demo records of the in-memory store, dated before the
\* first request (their fingerprints are literals, none of them a digest)
mockErrors == <<
    [id |-> "seed-1", message |-> "TypeError: Cannot read property 'profile' of undefined",
     fingerprint |-> "mock-fp-1", occurrences |-> 47, affectedUsers |-> 47,
     sessions |-> 234, firstSeen |-> 0, lastSeen |-> 0],
    [id |-> "seed-2", message |-> "ReferenceError: userId is not defined",
     fingerprint |-> "mock-fp-2", occurrences |-> 12, affectedUsers |-> 12,
     sessions |-> 56, firstSeen |-> 0, lastSeen |-> 0],
    [id |-> "seed-3", message |-> "SyntaxError: Unexpected token in JSON",
     fingerprint |-> "mock-fp-3", occurrences |-> 5, affectedUsers |-> 5,
     sessions |-> 8, firstSeen |-> 0, lastSeen |-> 0],
    [id |-> "seed-4", message |-> "NetworkError: Failed to fetch /api/checkout",
     fingerprint |-> "mock-fp-4", occurrences |-> 89, affectedUsers |-> 89,
     sessions |-> 156, firstSeen |-> 0, lastSeen |-> 0],
    [id |-> "seed-5", message |-> "RangeError: Maximum call stack size exceeded",
     fingerprint |-> "mock-fp-5", occurrences |-> 3, affectedUsers |-> 3,
     sessions |-> 3, firstSeen |-> 0, lastSeen |-> 0] >>

Init ==
    /\ \E key \in EnvKeys : service = initialize(key)
    /\ pc = "idle"
    /\ context = None
    /\ errorType = None
    /\ category = None
    /\ severity = None
    /\ suggestedComponents = None
    /\ modelReply = None
    /\ runs = 0
    /\ result = None
    /\ prev = None
    /\ response = None
    /\ stream = StreamIdle
    /\ calls = [r \in Requests |-> CallIdle]
    /\ frames = [r \in Requests |-> None]
    /\ listening = FALSE
    /\ connected = FALSE
    /\ inMemoryErrors = << >>
    /\ collection = << >>
    /\ posts = [p \in PostIds |-> PostIdle]
    /\ submissions = 0
    /\ clients = {}
    /\ readyState = [ws \in Sockets |-> "NONE"]
    /\ outbox = [ws \in Sockets |-> {}]
    /\ ended = {}
    /\ broadcasts = 0
    /\ config = None
    /\ initialized = FALSE
    /\ breadcrumbs = << >>
    /\ originalConsoleError = "null"
    /\ consoleError = "native"
    /\ listeners = 0
    /\ fetches = << >>
    /\ added = << >>
    /\ tamboWs = 0
    /\ wsState = [socket \in TamboSockets |-> "NONE"]
    /\ reconnectAttempts = 0
    /\ timers = 0
    /\ subscribed = FALSE
    /\ delivered = 0
    /\ disconnected = FALSE
    /\ stored = << >>
    /\ listing = None

(***************************************************************************)
(* analyzeError                                                            *)
(***************************************************************************)
\* the process is started again: `new MCPService()` runs under another environment
Restart ==
    /\ pc = "idle"
    /\ \E key \in EnvKeys : service' = initialize(key)
    /\ UNCHANGED <<pc, context, errorType, category, severity, suggestedComponents,
                   modelReply, runs, result, prev, response>>
    /\ UNCHANGED <<peerVars, streamVars, concurrentVars, storeVars>>

\* analyzeError(ctx) up to its first await, or to its return under the template strategy
AnalyzeError ==
    /\ pc = "idle"
    /\ \E ctx \in Reports : \E draw \in RandomDraws :
        \E id \in {Identified[ctx.message, ctx.stack]} :
        \E sev \in {calculateSeverity(id.type, ctx)} :
        \E comps \in {getSuggestedComponents(id.type)} :
            /\ context' = ctx
            /\ errorType' = id.type
            /\ category' = id.category
            /\ severity' = sev
            /\ suggestedComponents' = comps
            /\ modelReply' = None
            /\ prev' = IF prev # None /\ prev.context = ctx THEN prev ELSE None
            /\ IF service.useRealAI /\ service.bytezClient
               THEN /\ pc' = "awaiting"
                    /\ runs' = 1
                    /\ result' = None
               ELSE /\ pc' = "returned"
                    /\ runs' = 0
                    /\ result' = Returned(Assemble(id.type, id.category, sev, comps,
                                     generateMockAnalysis(ctx, id.type, id.category), draw))
    /\ UNCHANGED <<peerVars, service, response, streamVars, concurrentVars, storeVars>>

\* model.run settles; generateAIAnalysis and analyzeError run to their return
ModelRunSettles ==
    /\ pc = "awaiting"
    /\ \E reply \in ModelReplies : \E draw \in RandomDraws :
        \E next \in {AfterRun(reply, runs)} :
        \E analysis \in {generateAIAnalysis(context, errorType, reply)} :
            /\ modelReply' = reply
            /\ pc' = next
            /\ runs' = IF next = "awaiting" THEN runs + 1 ELSE runs
            /\ result' = IF next = "awaiting" THEN None
                         ELSE IF analysis.threw THEN Threw
                         ELSE Returned(Assemble(errorType, category, severity,
                                           suggestedComponents, analysis.value, draw))
    /\ UNCHANGED <<service, context, errorType, category, severity, suggestedComponents,
                   prev, response, streamVars, concurrentVars, storeVars, peerVars>>

\* the caller takes the result; the call's frame is gone
Return ==
    /\ pc = "returned"
    /\ pc' = "idle"
    /\ prev' = IF result.threw THEN None
                ELSE [context |-> context, errorType |-> result.value.errorType,
                      category |-> result.value.category,
                      severity |-> result.value.severity,
                      suggestedComponents |-> result.value.suggestedComponents]
    /\ context' = None
    /\ errorType' = None
    /\ category' = None
    /\ severity' = None
    /\ suggestedComponents' = None
    /\ modelReply' = None
    /\ runs' = 0
    /\ result' = None
    /\ UNCHANGED <<peerVars, service, response, streamVars, concurrentVars, storeVars>>

Next == Restart \/ AnalyzeError \/ ModelRunSettles \/ Return

Spec == Init /\ [][Next]_vars

(***************************************************************************)
(* Routes POST /api/mcp/identify and POST /api/mcp/components              *)
(***************************************************************************)
\* words the request messages are made of
Words == <<"TypeError:", "undefined", "Timeout", "database", "query", "failed">>

RECURSIVE JoinWords(_)
\* the words with the indices w[1], w[2], ... separated by blanks
JoinWords(w) ==
    IF Len(w) = 0 THEN ""
    ELSE IF Len(w) = 1 THEN Words[w[1]]
    ELSE Words[w[1]] \o " " \o JoinWords(Tail(w))

\* req.body.errorMessage: absent, or a text of at most MaxWords words
RouteMessages ==
    {Undefined} \cup
    {Str(JoinWords(w)) : w \in UNION {[1..n -> 1..Len(Words)] : n \in 0..MaxWords}}

\* req.body.stackTrace
RouteStacks == {Undefined, Str("    at Pool.query (db/pool.js:88)\n    at null.<anonymous>")}

\* req.body.errorType: absent, an ErrorType, or any other string a client sends
RouteTypes ==
    {Undefined} \cup {Str(t) : t \in ErrorType} \cup
    {Str("segfault"), Str("constructor"), Str("toString")}

\* identifyErrorType over the request bodies the routes pass on
IdentifiedRoute ==
    [m \in {x \in RouteMessages : Truthy(x)}, st \in RouteStacks |-> identifyErrorType(m, st)]

\* req.body of /components: a type alone, a message alone, both, or neither
ComponentsBodies ==
    {[errorType |-> t, errorMessage |-> Undefined, stackTrace |-> Undefined] :
        t \in RouteTypes}
    \cup {[errorType |-> Undefined, errorMessage |-> m, stackTrace |-> st] :
        m \in RouteMessages, st \in RouteStacks}
    \cup {[errorType |-> Str("rate_limit"), errorMessage |-> Str("Timeout"),
           stackTrace |-> Undefined]}

descriptions == Obj([
    ErrorTimeline |-> Str("Shows when errors occurred over time with deployment markers"),
    ImpactMetrics |-> Str("Displays affected users, revenue at risk, and severity"),
    StackTrace |-> Str("Annotated stack trace with AI-highlighted problematic lines"),
    UserJourney |-> Str("Visualizes the user path leading to the error"),
    InfrastructureHealth |-> Str("Backend services status dashboard"),
    QuickActions |-> Str("Actionable buttons for rollback, notify, create ticket"),
    SimilarErrors |-> Str("Table of past similar errors with resolutions"),
    SuggestedFix |-> Str("AI-generated code fix with confidence score"),
    RelatedDocs |-> Str("Relevant documentation links")])

getComponentDescription(name) == Or(Get(descriptions, name), Str("Debug component"))

\* router.post('/identify')
IdentifyRoute ==
    /\ \E errorMessage \in RouteMessages : \E stackTrace \in RouteStacks :
        LET body == [errorMessage |-> errorMessage, stackTrace |-> stackTrace]
        IN  IF ~Truthy(errorMessage)
            THEN response' = [route |-> "identify", body |-> body, status |-> 400,
                              json |-> [error |-> "Error message is required"]]
            ELSE \E identification \in {IdentifiedRoute[errorMessage, stackTrace]} :
                 response' = [route |-> "identify", body |-> body, status |-> 200,
                     json |-> [type |-> identification.type,
                               category |-> identification.category,
                               severity |-> calculateSeverity(identification.type,
                                                [message |-> errorMessage, file |-> Undefined]),
                               suggestedComponents |->
                                   getSuggestedComponents(identification.type)]]
    /\ UNCHANGED <<peerVars, analysisVars, streamVars, concurrentVars, storeVars>>

\* router.post('/components'); `previous` remembers the list the preceding
\* request got when it asked for the same type
ComponentsRoute ==
    /\ \E body \in ComponentsBodies :
        LET bodyType == body.errorType
            errorMessage == body.errorMessage
            stackTrace == body.stackTrace
            type == IF ~Truthy(bodyType) /\ Truthy(errorMessage)
                    THEN Str(IdentifiedRoute[errorMessage, stackTrace].type)
                    ELSE bodyType
        IN  IF ~Truthy(type)
            THEN response' = [route |-> "components", body |-> body, status |-> 400,
                              json |-> [error |-> "Error type or message is required"]]
            ELSE \E components \in {getSuggestedComponents(type.v)} :
                 LET previous ==
                         IF response # None /\ response.route = "components"
                            /\ response.status # 400 /\ response.type = type.v
                         THEN response.components ELSE None
                 IN  IF components.t # "array"
                     \* components.map is not a function: the catch block answers
                     THEN response' = [route |-> "components", body |-> body, status |-> 500,
                              type |-> type.v, components |-> components,
                              previous |-> previous,
                              json |-> [error |-> "Failed to get component recommendations"]]
                     ELSE response' = [route |-> "components", body |-> body, status |-> 200,
                              type |-> type.v, components |-> components,
                              previous |-> previous,
                              json |-> [errorType |-> type.v, components |-> components,
                                        componentDetails |->
                                            [i \in DOMAIN components.v |->
                                                [name |-> components.v[i],
                                                 description |->
                                                     getComponentDescription(components.v[i].v)]]]]
    /\ UNCHANGED <<peerVars, analysisVars, streamVars, concurrentVars, storeVars>>

NextRoutes == IdentifyRoute \/ ComponentsRoute

SpecRoutes == Init /\ [][NextRoutes]_vars

(***************************************************************************)
(* Route POST /api/mcp/stream (server-sent events)                         *)
(***************************************************************************)
\* req.body of /stream: any JSON the client sends
StreamBodies ==
    [errorMessage : {Undefined, Str(""), Str("502 Gateway Timeout"), Str("JWT token expired")},
     stackTrace : {Undefined},
     file : {Undefined, Str("src/checkout/processOrder.ts"), Str("src/api/client.ts"), Num(42)},
     line : {Undefined, Num(42)}]

\* what model.run settles with during a /stream request
StreamReplies ==
    {Rejects, Resolves(Undefined, Str("{\"rootCause\":\"Stale cache entry\"}"))}

\* the progress updates of the handler
steps == <<
    [step |-> "identify", message |-> "Identifying error type..."],
    [step |-> "analyze", message |-> "Analyzing root cause..."],
    [step |-> "similar", message |-> "Finding similar errors..."],
    [step |-> "fix", message |-> "Generating fix suggestion..."],
    [step |-> "components", message |-> "Selecting UI components..."] >>

\* res.write of the complete event and of the terminal marker, then res.end()
StreamFinished(analysis) ==
    [stream EXCEPT !.pc = "closed",
                   !.written = stream.written \o <<[step |-> "complete", analysis |-> analysis],
                                                   [done |-> TRUE]>>,
                   !.ended = TRUE,
                   !.locals = None]

\* the catch block: the error event, then res.end()
StreamFailed ==
    [stream EXCEPT !.pc = "closed",
                   !.written = Append(stream.written, [error |-> "Analysis failed"]),
                   !.ended = TRUE,
                   !.locals = None]

\* a request arrives: 400 without a message, else the SSE headers are set
StreamRequest ==
    /\ stream.pc \in {"idle", "closed"}
    /\ \E body \in StreamBodies :
        IF ~Truthy(body.errorMessage)
        THEN stream' = [StreamIdle EXCEPT !.pc = "closed", !.body = body, !.status = 400,
                                          !.ended = TRUE]
        ELSE stream' = [StreamIdle EXCEPT !.pc = "steps", !.body = body, !.status = 200]
    /\ UNCHANGED <<peerVars, analysisVars, response, concurrentVars, storeVars>>

\* one round of the for-of loop: the next progress update is written, then
\* the handler waits 400 ms
StreamStep ==
    /\ stream.pc = "steps"
    /\ stream.i < Len(steps)
    /\ stream' = [stream EXCEPT !.i = stream.i + 1,
                                !.written = Append(stream.written, steps[stream.i + 1])]
    /\ UNCHANGED <<peerVars, analysisVars, response, concurrentVars, storeVars>>

\* the loop is over: mcpService.analyzeError({message, stack, file, line}) up to
\* its first await, to its return under the template strategy, or to the
\* exception that the catch block answers
StreamAnalyzeError ==
    /\ stream.pc = "steps"
    /\ stream.i = Len(steps)
    /\ \E ctx \in {[message |-> stream.body.errorMessage, stack |-> stream.body.stackTrace,
                    file |-> stream.body.file, line |-> stream.body.line]} :
       \E id \in {Identified[ctx.message, ctx.stack]} : \E draw \in RandomDraws :
        IF calculateSeverityThrows(ctx)
        THEN stream' = StreamFailed
        ELSE \E sev \in {calculateSeverity(id.type, ctx)} :
             \E comps \in {getSuggestedComponents(id.type)} :
                IF service.useRealAI /\ service.bytezClient
                THEN stream' = [stream EXCEPT !.pc = "awaiting",
                                    !.locals = [context |-> ctx, errorType |-> id.type,
                                                category |-> id.category, severity |-> sev,
                                                suggestedComponents |-> comps]]
                ELSE stream' = StreamFinished(Assemble(id.type, id.category, sev, comps,
                                   generateMockAnalysis(ctx, id.type, id.category), draw))
    /\ UNCHANGED <<peerVars, analysisVars, response, concurrentVars, storeVars>>

\* model.run settles: generateAIAnalysis and analyzeError return, the handler
\* writes the result
StreamModelRunSettles ==
    /\ stream.pc = "awaiting"
    /\ \E reply \in StreamReplies : \E draw \in RandomDraws :
        \E analysis \in {generateAIAnalysis(stream.locals.context, stream.locals.errorType,
                                            reply)} :
            stream' = IF analysis.threw THEN StreamFailed
                      ELSE StreamFinished(Assemble(stream.locals.errorType,
                               stream.locals.category, stream.locals.severity,
                               stream.locals.suggestedComponents, analysis.value, draw))
    /\ UNCHANGED <<peerVars, analysisVars, response, concurrentVars, storeVars>>

NextStream == StreamRequest \/ StreamStep \/ StreamAnalyzeError \/ StreamModelRunSettles

SpecStream == Init /\ [][NextStream]_vars

(***************************************************************************)
(* Concurrent analyzeError calls on the singleton mcpService.  The service *)
(* object holds bytezClient, useRealAI and initialized, written by the     *)
(* constructor only; the patterns carry the flag i alone, so test() keeps  *)
(* no lastIndex.  What a call knows between its steps is its activation    *)
(* record: context, errorType, category, severity, suggestedComponents.    *)
(***************************************************************************)
\* the reports of the concurrent calls
CallReports ==
    [message : {Str("JWT token expired"), Str("Blocked by CORS policy")},
     stack : {Undefined},
     file : {Undefined, Str("src/checkout/processOrder.ts")},
     line : {Undefined}]

\* what model.run settles with during a concurrent call
CallReplies ==
    StreamReplies \cup {Resolves(Undefined, Str("{" \o MemberTexts[8] \o "}"))}

\* mutant of Frame: the locals of every call live in one place, as fields of
\* the singleton would
FrameShared(r) == 1

\* the activation record of call r: `const` locals, one set per call
Frame(r) == r

\* the result analyzeError builds from the activation record f
CallResult(f, analysis, draw) ==
    Returned(Assemble(f.errorType, f.category, f.severity, f.suggestedComponents,
                      analysis, draw))

\* call r: analyzeError(ctx) up to its first await, or to its return under
\* the template strategy
CallAnalyzeError(r) ==
    /\ calls[r].pc = "idle"
    /\ \E ctx \in CallReports : \E draw \in RandomDraws :
        \E id \in {Identified[ctx.message, ctx.stack]} :
        \E f \in {[context |-> ctx, errorType |-> id.type, category |-> id.category,
                   severity |-> calculateSeverity(id.type, ctx),
                   suggestedComponents |-> getSuggestedComponents(id.type)]} :
            /\ frames' = [frames EXCEPT ![Frame(r)] = f]
            /\ IF service.useRealAI /\ service.bytezClient
               THEN calls' = [calls EXCEPT ![r] = [pc |-> "awaiting", context |-> ctx,
                                                   reply |-> None, result |-> None]]
               ELSE calls' = [calls EXCEPT ![r] =
                        [pc |-> "returned", context |-> ctx, reply |-> None,
                         result |-> CallResult(frames'[Frame(r)],
                                        generateMockAnalysis(frames'[Frame(r)].context,
                                            frames'[Frame(r)].errorType,
                                            frames'[Frame(r)].category), draw)]]
    /\ UNCHANGED <<peerVars, analysisVars, response, streamVars, storeVars>>

\* call r: model.run settles; generateAIAnalysis and analyzeError run to
\* their return on the call's activation record
CallModelRunSettles(r) ==
    /\ calls[r].pc = "awaiting"
    /\ \E reply \in CallReplies : \E draw \in RandomDraws :
        \E f \in {frames[Frame(r)]} :
        \E analysis \in {generateAIAnalysis(f.context, f.errorType, reply)} :
            calls' = [calls EXCEPT ![r].pc = "returned", ![r].reply = reply,
                         ![r].result = IF analysis.threw THEN Threw
                                       ELSE CallResult(f, analysis.value, draw)]
    /\ UNCHANGED <<peerVars, analysisVars, response, streamVars, frames, storeVars>>

\* call r: the caller takes the result
CallReturn(r) ==
    /\ calls[r].pc = "returned"
    /\ calls' = [calls EXCEPT ![r] = CallIdle]
    /\ UNCHANGED <<peerVars, analysisVars, response, streamVars, frames, storeVars>>

NextCalls ==
    \E r \in Requests : CallAnalyzeError(r) \/ CallModelRunSettles(r) \/ CallReturn(r)

SpecCalls == Init /\ [][NextCalls]_vars

\* The event loop runs a continuation that is ready: a settled call is handed
\* to its caller.  Nothing obliges the external service to answer, and
\* generateAIAnalysis arms no timer, so no step is forced while model.run is
\* pending.
SpecCallsLive == SpecCalls /\ \A r \in Requests : WF_calls(CallReturn(r))

(***************************************************************************)
(* ErrorService.createError and the route POST /api/errors.  The store is  *)
(* the MongoDB collection `errors` (with the unique index on fingerprint   *)
(* that connect() creates) or, after a failed connection, the array        *)
(* inMemoryErrors.  Dates are readings of a clock that advances with every *)
(* createError call.                                                       *)
(***************************************************************************)
\* String.prototype.split('\n')[0]
FirstLine(s) ==
    IF IndexFrom(s, "\n", 1) = 0 THEN s ELSE SubSeq(s, 1, IndexFrom(s, "\n", 1) - 1)

WhiteSpace == {" ", "\t", "\n", "\r"}

\* String.prototype.trim
Trim(s) ==
    IF \A k \in 1..Len(s) : CharAt(s, k) \in WhiteSpace THEN ""
    ELSE SubSeq(s, CHOOSE i \in 1..Len(s) : /\ CharAt(s, i) \notin WhiteSpace
                                            /\ \A k \in 1..(i - 1) : CharAt(s, k) \in WhiteSpace,
                   CHOOSE j \in 1..Len(s) : /\ CharAt(s, j) \notin WhiteSpace
                                            /\ \A k \in (j + 1)..Len(s) : CharAt(s, k) \in WhiteSpace)

\* createHash('md5').update(text).digest('hex'): a digest, taken to be free of
\* collisions; it is written md5(text) and never equals a seeded literal
Md5Hex(text) == "md5(" \o text \o ")"

\* generateFingerprint(message, stack)
generateFingerprint(message, stack) ==
    LET firstStackLine ==
            IF stack.t \in {"undefined", "null"} THEN Str("")
            ELSE Or(Str(FirstLine(stack.v)), Str(""))
    IN  Md5Hex(Trim(ToLowerCase(TemplateString(message) \o ":" \o firstStackLine.v)))

\* req.body of POST /api/errors: without a message; messages that differ in
\* case and in blanks around them; stack traces that share their first line
PostBodies == {
    [message |-> Undefined, stack |-> Str("at a (x.js:1)\nat b (y.js:2)")],
    [message |-> Str("Timeout"), stack |-> Undefined],
    [message |-> Str(" timeout"), stack |-> Undefined],
    [message |-> Str("Timeout"), stack |-> Str("at a (x.js:1)\nat b (y.js:2)")],
    [message |-> Str("timeout"), stack |-> Str("at a (x.js:1)\nat c (z.js:3)")],
    [message |-> Str("Heap full"), stack |-> Undefined]}

\* generateFingerprint over the bodies (message, and stack || '')
Fingerprints ==
    [b \in {x \in PostBodies : Truthy(x.message)} |->
        generateFingerprint(b.message, Or(b.stack, Str("")))]

\* mutant of findByFingerprint: the records are compared by their id
findById(errors, fingerprint) ==
    IF \E i \in 1..Len(errors) : errors[i].id = fingerprint
    THEN CHOOSE i \in 1..Len(errors) : errors[i].id = fingerprint
    ELSE 0

\* errors.find(e => e.fingerprint === fingerprint), and findOne({ fingerprint }):
\* the position of the first record with the fingerprint, 0 when there is none
findByFingerprint(errors, fingerprint) ==
    IF \E i \in 1..Len(errors) : errors[i].fingerprint = fingerprint
    THEN CHOOSE i \in 1..Len(errors) :
             /\ errors[i].fingerprint = fingerprint
             /\ \A k \in 1..(i - 1) : errors[k].fingerprint # fingerprint
    ELSE 0

\* the record createError builds for a new error; uuidv4() is the number of the
\* call; createdAt and updatedAt carry the readings of firstSeen and lastSeen
\* and are left out, as are the fields the route copies from the body
NewError(data, fingerprint, now) ==
    [id |-> "error-" \o NumberToString(now), message |-> data.message.v,
     fingerprint |-> fingerprint, occurrences |-> 1, affectedUsers |-> 1, sessions |-> 1,
     firstSeen |-> now, lastSeen |-> now]

\* the update of an existing record: occurrences, affectedUsers and sessions
\* incremented, lastSeen set
Seen(error, now) ==
    [error EXCEPT !.occurrences = @ + 1, !.affectedUsers = @ + 1, !.sessions = @ + 1,
                  !.lastSeen = now]

\* mutant of eventType: every submission is announced as a new error
eventTypeNew(isNew) == "new_error"

\* isNew ? 'new_error' : 'error_updated'
eventType(isNew) == IF isNew THEN "new_error" ELSE "error_updated"

\* startServer: connect() succeeds (MongoDB mode, indexes created) or fails
\* (the array is seeded), then the server listens
StartServer ==
    /\ ~listening
    /\ listening' = TRUE
    /\ connected' \in BOOLEAN
    /\ inMemoryErrors' = IF connected' THEN inMemoryErrors ELSE mockErrors
    /\ UNCHANGED <<peerVars, analysisVars, response, streamVars, concurrentVars, collection, posts,
                   submissions>>

\* request p arrives.  Without a message it is answered 400; else
\* createError is called: it runs to its first await (findOne) in MongoDB
\* mode, and to its return on the array
PostRequest(p) ==
    /\ listening
    /\ posts[p].pc = "idle"
    /\ \E body \in PostBodies :
        IF ~Truthy(body.message)
        THEN /\ posts' = [posts EXCEPT ![p] =
                     [PostIdle EXCEPT !.pc = "done", !.body = body,
                          !.trace = <<[kind |-> "response", status |-> 400]>>]]
             /\ UNCHANGED <<inMemoryErrors, submissions>>
        ELSE /\ submissions' = submissions + 1
             /\ \E fingerprint \in {Fingerprints[body]} :
                \E now \in {submissions + 1} :
                \E existing \in {findByFingerprint(inMemoryErrors, fingerprint)} :
                    IF connected
                    THEN /\ posts' = [posts EXCEPT ![p] =
                                 [PostIdle EXCEPT !.pc = "findOne", !.body = body,
                                      !.fingerprint = fingerprint, !.now = now]]
                         /\ UNCHANGED inMemoryErrors
                    ELSE IF existing # 0
                    THEN /\ inMemoryErrors' =
                                 [inMemoryErrors EXCEPT ![existing] = Seen(@, now)]
                         /\ posts' = [posts EXCEPT ![p] =
                                 [PostIdle EXCEPT !.pc = "import", !.body = body,
                                      !.fingerprint = fingerprint, !.now = now,
                                      !.created = [error |-> inMemoryErrors'[existing],
                                                   isNew |-> FALSE]]]
                    ELSE /\ inMemoryErrors' =
                                 Append(inMemoryErrors, NewError(body, fingerprint, now))
                         /\ posts' = [posts EXCEPT ![p] =
                                 [PostIdle EXCEPT !.pc = "import", !.body = body,
                                      !.fingerprint = fingerprint, !.now = now,
                                      !.created = [error |-> NewError(body, fingerprint, now),
                                                   isNew |-> TRUE]]]
    /\ UNCHANGED <<peerVars, analysisVars, response, streamVars, concurrentVars,
                   listening, connected,
                   collection>>

\* request p, MongoDB mode: findOne({ fingerprint }) resolves
MongoFindOne(p) ==
    /\ posts[p].pc = "findOne"
    /\ \E existing \in {findByFingerprint(collection, posts[p].fingerprint)} :
        posts' = [posts EXCEPT ![p].pc = IF existing # 0 THEN "updateOne" ELSE "insertOne",
                               ![p].existing = IF existing # 0 THEN collection[existing]
                                               ELSE None]
    /\ UNCHANGED <<peerVars, analysisVars, response, streamVars, concurrentVars,
                   listening, connected,
                   inMemoryErrors, collection, submissions>>

\* request p, MongoDB mode: updateOne({ _id }, { $inc, $set }) resolves
MongoUpdateOne(p) ==
    /\ posts[p].pc = "updateOne"
    /\ collection' = [i \in DOMAIN collection |->
                         IF collection[i].id = posts[p].existing.id
                         THEN Seen(collection[i], posts[p].now) ELSE collection[i]]
    /\ posts' = [posts EXCEPT ![p].pc = "refetch"]
    /\ UNCHANGED <<peerVars, analysisVars, response, streamVars, concurrentVars,
                   listening, connected,
                   inMemoryErrors, submissions>>

\* request p, MongoDB mode: findOne({ _id }) resolves and createError returns
MongoRefetch(p) ==
    /\ posts[p].pc = "refetch"
    /\ \E i \in DOMAIN collection :
        /\ collection[i].id = posts[p].existing.id
        /\ posts' = [posts EXCEPT ![p].pc = "import",
                                  ![p].created = [error |-> collection[i], isNew |-> FALSE]]
    /\ UNCHANGED <<peerVars, analysisVars, response, streamVars, concurrentVars,
                   listening, connected,
                   inMemoryErrors, collection, submissions>>

\* request p, MongoDB mode: insertOne(error) resolves and createError returns,
\* or the unique index on fingerprint rejects it (E11000 duplicate key) and
\* the handler's catch block answers 500
MongoInsertOne(p) ==
    /\ posts[p].pc = "insertOne"
    /\ \E error \in {NewError(posts[p].body, posts[p].fingerprint, posts[p].now)} :
        IF findByFingerprint(collection, posts[p].fingerprint) # 0
        THEN /\ posts' = [posts EXCEPT ![p].pc = "done",
                              ![p].trace = <<[kind |-> "response", status |-> 500]>>]
             /\ UNCHANGED collection
        ELSE /\ collection' = Append(collection, error)
             /\ posts' = [posts EXCEPT ![p].pc = "import",
                              ![p].created = [error |-> error, isNew |-> TRUE]]
    /\ UNCHANGED <<peerVars, analysisVars, response, streamVars, concurrentVars,
                   listening, connected,
                   inMemoryErrors, submissions>>

\* the object createError returned, as it is when the handler reads it: on the
\* array it is the stored object itself, in MongoDB mode a document of its own
ReturnedError(p) ==
    IF connected THEN posts[p].created.error
    ELSE inMemoryErrors[CHOOSE i \in DOMAIN inMemoryErrors :
                            inMemoryErrors[i].id = posts[p].created.error.id]

\* request p: import('../index.js') has resolved; broadcastError(...), then
\* res.status(...).json(...)
PostRespond(p) ==
    /\ posts[p].pc = "import"
    /\ \E isNew \in {posts[p].created.isNew} : \E error \in {ReturnedError(p)} :
        posts' = [posts EXCEPT ![p].pc = "done",
                     ![p].trace = <<[kind |-> "broadcast", type |-> eventType(isNew),
                                     data |-> error],
                                    [kind |-> "response", status |-> IF isNew THEN 201 ELSE 200,
                                     json |-> [error |-> error, isNew |-> isNew,
                                               fingerprint |-> error.fingerprint]]>>]
    /\ UNCHANGED <<peerVars, analysisVars, response, streamVars, concurrentVars,
                   listening, connected,
                   inMemoryErrors, collection, submissions>>

NextStore ==
    \/ StartServer
    \/ \E p \in PostIds :
        \/ PostRequest(p)
        \/ MongoFindOne(p)
        \/ MongoUpdateOne(p)
        \/ MongoRefetch(p)
        \/ MongoInsertOne(p)
        \/ PostRespond(p)

SpecStore == Init /\ [][NextStore]_vars

(***************************************************************************)
(* index.ts: the WebSocket fan-out.  A socket is one accepted connection;  *)
(* a client that reconnects arrives as a new socket.  readyState follows   *)
(* the ws library: OPEN at the 'connection' event, CLOSING once a closing  *)
(* handshake has begun, CLOSED at the 'close' event.                       *)
(***************************************************************************)
\* what a client sends: a ping, a type the switch only logs (subscribe stands
\* for unsubscribe and the default case too), and a text that is not JSON
ClientMessages == {"ping", "subscribe", "not json"}

\* the event types broadcastError is called with
EventTypes == {"new_error", "error_updated"}

\* JSON.stringify({ type, ... }) of the welcome and the pong; n numbers the
\* broadcast messages and is 0 for the others
Welcome == [type |-> "connected", n |-> 0]
Pong == [type |-> "pong", n |-> 0]

\* ws.send(data): written when the socket is OPEN, dropped after the close began
Send(ws, message) ==
    IF readyState[ws] = "OPEN" THEN [outbox EXCEPT ![ws] = @ \cup {message}] ELSE outbox

\* mutant of Recipients: the readyState test of broadcastError is missing
RecipientsAny(set, state) == set

\* the clients broadcastError sends to
Recipients(set, state) == {client \in set : state[client] = "OPEN"}

\* wss.on('connection'): the socket joins the set and is sent the welcome
Connection(ws) ==
    /\ readyState[ws] = "NONE"
    /\ readyState' = [readyState EXCEPT ![ws] = "OPEN"]
    /\ clients' = clients \cup {ws}
    /\ outbox' = [outbox EXCEPT ![ws] = @ \cup {Welcome}]
    /\ UNCHANGED <<ended, broadcasts>>
    /\ UNCHANGED <<analysisVars, response, streamVars, concurrentVars, storeVars, sdkVars,
                   tamboVars, listVars>>

\* ws.on('message'): only a ping is answered; the other types are logged and a
\* text that does not parse is caught
OnMessage(ws, type) ==
    /\ readyState[ws] \in {"OPEN", "CLOSING"}
    /\ outbox' = IF type = "ping" THEN Send(ws, Pong) ELSE outbox
    /\ UNCHANGED <<clients, readyState, ended, broadcasts>>
    /\ UNCHANGED <<analysisVars, response, streamVars, concurrentVars, storeVars, sdkVars,
                   tamboVars, listVars>>

\* the peer or the server begins the closing handshake (no handler of index.ts
\* runs)
CloseBegins(ws) ==
    /\ readyState[ws] = "OPEN"
    /\ readyState' = [readyState EXCEPT ![ws] = "CLOSING"]
    /\ UNCHANGED <<clients, outbox, ended, broadcasts>>
    /\ UNCHANGED <<analysisVars, response, streamVars, concurrentVars, storeVars, sdkVars,
                   tamboVars, listVars>>

\* ws.on('close')
OnClose(ws) ==
    /\ readyState[ws] \in {"OPEN", "CLOSING"}
    /\ readyState' = [readyState EXCEPT ![ws] = "CLOSED"]
    /\ clients' = clients \ {ws}
    /\ ended' = ended \cup {ws}
    /\ UNCHANGED <<outbox, broadcasts>>
    /\ UNCHANGED <<analysisVars, response, streamVars, concurrentVars, storeVars, sdkVars,
                   tamboVars, listVars>>

\* ws.on('error'): the library emits it once and closes the socket; whether the
\* socket is still OPEN when the handler runs is the library's choice
OnError(ws) ==
    /\ readyState[ws] \in {"OPEN", "CLOSING"}
    /\ ws \notin ended
    /\ \E state \in {readyState[ws], "CLOSING"} :
           readyState' = [readyState EXCEPT ![ws] = state]
    /\ clients' = clients \ {ws}
    /\ ended' = ended \cup {ws}
    /\ UNCHANGED <<outbox, broadcasts>>
    /\ UNCHANGED <<analysisVars, response, streamVars, concurrentVars, storeVars, sdkVars,
                   tamboVars, listVars>>

\* broadcastError(eventType, data)
BroadcastError(event) ==
    /\ broadcasts < MaxBroadcasts
    /\ broadcasts' = broadcasts + 1
    /\ \E message \in {[type |-> event, n |-> broadcasts + 1]} :
           outbox' = [ws \in Sockets |->
                         IF ws \in Recipients(clients, readyState)
                         THEN outbox[ws] \cup {message} ELSE outbox[ws]]
    /\ UNCHANGED <<clients, readyState, ended>>
    /\ UNCHANGED <<analysisVars, response, streamVars, concurrentVars, storeVars, sdkVars,
                   tamboVars, listVars>>

NextSockets ==
    \/ \E ws \in Sockets :
        \/ Connection(ws)
        \/ \E type \in ClientMessages : OnMessage(ws, type)
        \/ CloseBegins(ws)
        \/ OnClose(ws)
        \/ OnError(ws)
    \/ \E event \in EventTypes : BroadcastError(event)

SpecSockets == Init /\ [][NextSockets]_vars

(***************************************************************************)
(* The browser SDK (ErrorIQClient).  A request body is the payload as      *)
(* JSON.stringify reads it inside sendError, which runs before captureError *)
(* returns.  Of a payload the message, type, severity and breadcrumbs are  *)
(* kept; the other fields are read from the browser and take no part.      *)
(***************************************************************************)
\* a ?? b
Nullish(a, b) == IF a.t \in {"undefined", "null"} THEN b ELSE a

\* the beforeSend hooks a client is configured with: none, one that cancels
\* every report, one that passes the payload on, one that rewrites the message
Hooks == {"none", "drop", "keep", "redact"}

\* the configurations: each hook with console capture on, and each buffer
\* size with console capture off
Configs ==
    {[maxBreadcrumbs |-> MaxCrumbs, enableConsoleCapture |-> TRUE, beforeSend |-> hook] :
        hook \in Hooks}
    \cup {[maxBreadcrumbs |-> max, enableConsoleCapture |-> FALSE, beforeSend |-> "none"] :
              max \in 1..MaxCrumbs}

\* this.config.beforeSend?.(payload)
beforeSend(hook, payload) ==
    CASE hook = "none" -> Undefined
      [] hook = "drop" -> Null
      [] hook = "keep" -> payload
      [] hook = "redact" -> [payload EXCEPT !.v.message = "[redacted]"]

\* the Partial<ErrorPayload> the two capturing listeners and a direct caller pass
ErrorData(kind) ==
    CASE kind = "error" ->
             [message |-> Or(Str("x is not a function"), Str("Unknown error")),
              type |-> Str("TypeError"), severity |-> Str("high")]
      [] kind = "unhandledrejection" ->
             [message |-> Str("Request failed"), type |-> Str("UnhandledRejection"),
              severity |-> Str("high")]
      [] kind = "captureError" ->
             [message |-> Str(""), type |-> Str("TestError"), severity |-> Undefined]

\* the breadcrumb a listener or the console wrapper adds
Breadcrumb(kind) ==
    CASE kind = "click" -> [type |-> "click", message |-> "Clicked on submit"]
      [] kind = "popstate" -> [type |-> "navigation", message |-> "Navigated to /demo"]
      [] kind = "console" -> [type |-> "console", message |-> "render failed"]

\* mutant of addBreadcrumb: the newest entry is removed (pop for shift)
addBreadcrumbPop(buffer, breadcrumb, max) ==
    IF Len(buffer) + 1 > max THEN buffer ELSE Append(buffer, breadcrumb)

\* addBreadcrumb: push, then shift when the buffer is over maxBreadcrumbs
addBreadcrumb(buffer, breadcrumb, max) ==
    IF Len(buffer) + 1 > max THEN Tail(Append(buffer, breadcrumb))
    ELSE Append(buffer, breadcrumb)

\* addBreadcrumb called n times with the same breadcrumb
RECURSIVE addBreadcrumbs(_, _, _, _)
addBreadcrumbs(buffer, breadcrumb, max, n) ==
    IF n = 0 THEN buffer
    ELSE addBreadcrumbs(addBreadcrumb(buffer, breadcrumb, max), breadcrumb, max, n - 1)

\* the payload captureError builds
Payload(errorData, buffer) ==
    [t |-> "object",
     v |-> [message |-> Or(errorData.message, Str("Unknown error")).v,
            type |-> errorData.type.v,
            severity |-> Or(errorData.severity, Str("medium")).v,
            breadcrumbs |-> buffer]]

\* captureError: the request bodies it hands to sendError, none or one
captureError(cfg, buffer, errorData) ==
    LET payload == Payload(errorData, buffer)
        finalPayload == Nullish(beforeSend(cfg.beforeSend, payload), payload)
    IN  IF ~Truthy(finalPayload) THEN << >> ELSE <<finalPayload.v>>

\* a sequence repeated n times
RECURSIVE Times(_, _)
Times(seq, n) == IF n = 0 THEN << >> ELSE seq \o Times(seq, n - 1)

\* new ErrorIQClient(config)
Construct(cfg) ==
    /\ config = None
    /\ config' = cfg
    /\ UNCHANGED <<initialized, breadcrumbs, originalConsoleError, consoleError,
                   listeners, fetches, added>>
    /\ UNCHANGED <<analysisVars, response, streamVars, concurrentVars, storeVars, socketVars,
                   tamboVars, listVars>>

\* init(): returns at once when initialized; else adds the four listeners,
\* wraps console.error when enableConsoleCapture is set, and sets initialized
SdkInit ==
    /\ config # None
    /\ IF initialized
       THEN UNCHANGED <<initialized, originalConsoleError, consoleError, listeners>>
       ELSE /\ listeners < MaxInits
            /\ listeners' = listeners + 1
            /\ IF config.enableConsoleCapture
               THEN /\ originalConsoleError' = consoleError
                    /\ consoleError' = "wrapper"
               ELSE UNCHANGED <<originalConsoleError, consoleError>>
            /\ initialized' = TRUE
    /\ UNCHANGED <<config, breadcrumbs, fetches, added>>
    /\ UNCHANGED <<analysisVars, response, streamVars, concurrentVars, storeVars, socketVars,
                   tamboVars, listVars>>

\* destroy(): restores console.error, empties the buffer, clears initialized;
\* no listener is removed
SdkDestroy ==
    /\ config # None
    /\ consoleError' = IF originalConsoleError # "null" THEN originalConsoleError
                       ELSE consoleError
    /\ breadcrumbs' = << >>
    /\ added' = << >>
    /\ initialized' = FALSE
    /\ UNCHANGED <<config, originalConsoleError, listeners, fetches>>
    /\ UNCHANGED <<analysisVars, response, streamVars, concurrentVars, storeVars, socketVars,
                   tamboVars, listVars>>

\* the browser dispatches an 'error' or 'unhandledrejection' event on window:
\* every listener the client has added runs captureError
WindowEvent(kind) ==
    /\ config # None
    /\ listeners > 0
    /\ fetches' = Times(captureError(config, breadcrumbs, ErrorData(kind)), listeners)
    /\ UNCHANGED <<config, initialized, breadcrumbs, originalConsoleError, consoleError,
                   listeners, added>>
    /\ UNCHANGED <<analysisVars, response, streamVars, concurrentVars, storeVars, socketVars,
                   tamboVars, listVars>>

\* the browser dispatches 'popstate' on window or 'click' on document: every
\* listener the client has added runs addBreadcrumb
TrackEvent(kind) ==
    /\ config # None
    /\ listeners > 0
    /\ Len(added) + listeners <= MaxAdds
    /\ breadcrumbs' = addBreadcrumbs(breadcrumbs, Breadcrumb(kind), config.maxBreadcrumbs,
                                     listeners)
    /\ added' = added \o Times(<<Breadcrumb(kind)>>, listeners)
    /\ UNCHANGED <<config, initialized, originalConsoleError, consoleError, listeners,
                   fetches>>
    /\ UNCHANGED <<analysisVars, response, streamVars, concurrentVars, storeVars, socketVars,
                   tamboVars, listVars>>

\* console.error(...) is called while the wrapper is installed
ConsoleError ==
    /\ consoleError = "wrapper"
    /\ Len(added) < MaxAdds
    /\ breadcrumbs' = addBreadcrumb(breadcrumbs, Breadcrumb("console"), config.maxBreadcrumbs)
    /\ added' = Append(added, Breadcrumb("console"))
    /\ UNCHANGED <<config, initialized, originalConsoleError, consoleError, listeners,
                   fetches>>
    /\ UNCHANGED <<analysisVars, response, streamVars, concurrentVars, storeVars, socketVars,
                   tamboVars, listVars>>

\* erroriq.captureError(errorData), called by the application
CaptureError ==
    /\ config # None
    /\ fetches' = captureError(config, breadcrumbs, ErrorData("captureError"))
    /\ UNCHANGED <<config, initialized, breadcrumbs, originalConsoleError, consoleError,
                   listeners, added>>
    /\ UNCHANGED <<analysisVars, response, streamVars, concurrentVars, storeVars, socketVars,
                   tamboVars, listVars>>

NextSdk ==
    \/ \E cfg \in Configs : Construct(cfg)
    \/ SdkInit
    \/ SdkDestroy
    \/ \E kind \in {"error", "unhandledrejection"} : WindowEvent(kind)
    \/ \E kind \in {"popstate", "click"} : TrackEvent(kind)
    \/ ConsoleError
    \/ CaptureError

SpecSdk == Init /\ [][NextSdk]_vars

(***************************************************************************)
(* The dashboard's TamboClient: its WebSocket, the reconnect timer and the *)
(* '*' subscription of useRealtimeUpdates.  A browser WebSocket is         *)
(* CONNECTING when constructed; its handlers stay attached to it whatever  *)
(* this.ws refers to later.                                                *)
(***************************************************************************)
maxReconnectAttempts == 5

\* the WebSockets not yet constructed
Fresh(states) == {socket \in TamboSockets : states[socket] = "NONE"}

\* connect(): returns when this.ws is OPEN, else constructs a WebSocket and
\* assigns it to this.ws (whatever this.ws was)
connect(current, states) ==
    IF current # 0 /\ states[current] = "OPEN"
    THEN [ws |-> current, states |-> states]
    ELSE LET socket == CHOOSE new \in Fresh(states) : \A other \in Fresh(states) : new <= other
         IN  [ws |-> socket, states |-> [states EXCEPT ![socket] = "CONNECTING"]]

\* connect() can run within the sockets of the model
CanConnect == (tamboWs # 0 /\ wsState[tamboWs] = "OPEN") \/ Fresh(wsState) # {}

\* the application calls tamboClient.connect() (useRealtimeUpdates on mount)
TamboConnect ==
    /\ CanConnect
    /\ \E after \in {connect(tamboWs, wsState)} :
           /\ tamboWs' = after.ws
           /\ wsState' = after.states
    /\ disconnected' = FALSE
    /\ UNCHANGED <<reconnectAttempts, timers, subscribed, delivered>>
    /\ UNCHANGED <<analysisVars, response, streamVars, concurrentVars, storeVars, socketVars,
                   sdkVars, listVars>>

\* the application calls tamboClient.disconnect(): close() on a CONNECTING or
\* OPEN socket makes it CLOSING; this.ws becomes null
TamboDisconnect ==
    /\ IF tamboWs # 0
       THEN /\ wsState' = [wsState EXCEPT ![tamboWs] =
                               IF @ \in {"CONNECTING", "OPEN"} THEN "CLOSING" ELSE @]
            /\ tamboWs' = 0
       ELSE UNCHANGED <<tamboWs, wsState>>
    /\ disconnected' = TRUE
    /\ UNCHANGED <<reconnectAttempts, timers, subscribed, delivered>>
    /\ UNCHANGED <<analysisVars, response, streamVars, concurrentVars, storeVars, socketVars,
                   sdkVars, listVars>>

\* ws.onopen
OnOpen(socket) ==
    /\ wsState[socket] = "CONNECTING"
    /\ wsState' = [wsState EXCEPT ![socket] = "OPEN"]
    /\ reconnectAttempts' = 0
    /\ UNCHANGED <<tamboWs, timers, subscribed, delivered, disconnected>>
    /\ UNCHANGED <<analysisVars, response, streamVars, concurrentVars, storeVars, socketVars,
                   sdkVars, listVars>>

\* ws.onclose (the connection failed, was lost, or its close() completed):
\* attemptReconnect() counts the attempt and sets a timer unless the limit is reached
TamboOnClose(socket) ==
    /\ wsState[socket] \in {"CONNECTING", "OPEN", "CLOSING"}
    /\ wsState' = [wsState EXCEPT ![socket] = "CLOSED"]
    /\ IF reconnectAttempts >= maxReconnectAttempts
       THEN UNCHANGED <<reconnectAttempts, timers>>
       ELSE /\ reconnectAttempts' = reconnectAttempts + 1
            /\ timers' = timers + 1
    /\ UNCHANGED <<tamboWs, subscribed, delivered, disconnected>>
    /\ UNCHANGED <<analysisVars, response, streamVars, concurrentVars, storeVars, socketVars,
                   sdkVars, listVars>>

\* a timer of attemptReconnect fires: this.connect()
ReconnectTimer ==
    /\ timers > 0
    /\ CanConnect
    /\ timers' = timers - 1
    /\ \E after \in {connect(tamboWs, wsState)} :
           /\ tamboWs' = after.ws
           /\ wsState' = after.states
    /\ UNCHANGED <<reconnectAttempts, subscribed, delivered, disconnected>>
    /\ UNCHANGED <<analysisVars, response, streamVars, concurrentVars, storeVars, socketVars,
                   sdkVars, listVars>>

\* subscribe('*', callback) and the unsubscribe function it returns
Subscribe ==
    /\ subscribed' = ~subscribed
    /\ UNCHANGED <<tamboWs, wsState, reconnectAttempts, timers, delivered, disconnected>>
    /\ UNCHANGED <<analysisVars, response, streamVars, concurrentVars, storeVars, socketVars,
                   sdkVars, listVars>>

\* the server broadcasts one message: the onmessage handler of every OPEN
\* socket runs notifyListeners, which calls the '*' callback
ServerMessage ==
    /\ \E socket \in TamboSockets : wsState[socket] = "OPEN"
    /\ delivered' = IF subscribed
                    THEN Cardinality({socket \in TamboSockets : wsState[socket] = "OPEN"})
                    ELSE 0
    /\ UNCHANGED <<tamboWs, wsState, reconnectAttempts, timers, subscribed, disconnected>>
    /\ UNCHANGED <<analysisVars, response, streamVars, concurrentVars, storeVars, socketVars,
                   sdkVars, listVars>>

NextTambo ==
    \/ TamboConnect
    \/ TamboDisconnect
    \/ \E socket \in TamboSockets : OnOpen(socket) \/ TamboOnClose(socket)
    \/ ReconnectTimer
    \/ Subscribe
    \/ ServerMessage

SpecTambo == Init /\ [][NextTambo]_vars

(***************************************************************************)
(* ErrorService.getErrors in its two modes.  Two services are given the    *)
(* same records, one connected to MongoDB and one on the in-memory array,  *)
(* and are asked the same question.  createdAt is in minutes relative to   *)
(* the start of the process; a filter string that is "" stands for an      *)
(* absent one (both are falsy).                                            *)
(***************************************************************************)
\* the records of seedMockData, by the fields getErrors reads
Documents == <<
    [id |-> "seed-1", message |-> "TypeError: Cannot read property 'profile' of undefined",
     file |-> "src/checkout/processOrder.ts", severity |-> "critical", status |-> "new",
     createdAt |-> -23],
    [id |-> "seed-2", message |-> "ReferenceError: userId is not defined",
     file |-> "src/api/users.ts", severity |-> "high", status |-> "acknowledged",
     createdAt |-> -120],
    [id |-> "seed-3", message |-> "SyntaxError: Unexpected token in JSON",
     file |-> "src/utils/api.ts", severity |-> "medium", status |-> "resolved",
     createdAt |-> -300],
    [id |-> "seed-4", message |-> "NetworkError: Failed to fetch /api/checkout",
     file |-> "src/services/checkout.ts", severity |-> "high", status |-> "new",
     createdAt |-> -15],
    [id |-> "seed-5", message |-> "RangeError: Maximum call stack size exceeded",
     file |-> "src/utils/tree.ts", severity |-> "critical", status |-> "new",
     createdAt |-> -10] >>

\* the filters of the modelled calls
Filters ==
    [severity : {"", "critical"}, status : {"", "new"}, file : {"", "checkout"},
     search : {"", "fetch", "utils.api"},
     startDate : {Undefined, Num(-60)}, endDate : {Undefined, Num(-12)}]

\* { $regex: pattern, $options: 'i' } on a field: the pattern is found somewhere
\* in the text, letters compared without case and '.' standing for any
\* character (the patterns of Filters hold no other metacharacter)
RegexMatches(text, pattern) ==
    \E start \in 1..(Len(text) - Len(pattern) + 1) :
        \A i \in 1..Len(pattern) :
            \/ CharAt(pattern, i) = "."
            \/ LowerChar(CharAt(pattern, i)) = LowerChar(CharAt(text, start + i - 1))

\* buildQuery: a condition is present when its filter is truthy
buildQuery(filters) ==
    [severity |-> IF filters.severity # "" THEN Str(filters.severity) ELSE Undefined,
     status |-> IF filters.status # "" THEN Str(filters.status) ELSE Undefined,
     file |-> IF filters.file # "" THEN Str(filters.file) ELSE Undefined,
     gte |-> filters.startDate,
     lte |-> filters.endDate,
     or |-> IF filters.search # "" THEN Str(filters.search) ELSE Undefined]

\* the document satisfies every condition of the query
QueryMatches(doc, query) ==
    /\ query.severity = Undefined \/ doc.severity = query.severity.v
    /\ query.status = Undefined \/ doc.status = query.status.v
    /\ query.file = Undefined \/ RegexMatches(doc.file, query.file.v)
    /\ query.gte = Undefined \/ doc.createdAt >= query.gte.v
    /\ query.lte = Undefined \/ doc.createdAt <= query.lte.v
    /\ query.or = Undefined \/ RegexMatches(doc.message, query.or.v)
                            \/ RegexMatches(doc.file, query.or.v)

\* a sequence sorted newest first; records of equal createdAt keep their order
\* (Array.prototype.sort is stable; the modelled records have distinct dates)
RECURSIVE SortNewestFirst(_)
SortNewestFirst(seq) ==
    IF seq = << >> THEN << >>
    ELSE LET k == CHOOSE i \in 1..Len(seq) :
                      /\ \A j \in 1..Len(seq) : seq[j].createdAt <= seq[i].createdAt
                      /\ \A j \in 1..(i - 1) : seq[j].createdAt < seq[i].createdAt
         IN  <<seq[k]>> \o SortNewestFirst(SubSeq(seq, 1, k - 1) \o SubSeq(seq, k + 1, Len(seq)))

\* cursor.skip(skip).limit(limit): limit 0 means no limit
SkipLimit(seq, skip, limit) ==
    IF limit = 0 THEN SubSeq(seq, skip + 1, Len(seq))
    ELSE SubSeq(seq, skip + 1, IF skip + limit < Len(seq) THEN skip + limit ELSE Len(seq))

\* Array.prototype.slice(skip, skip + limit)
Slice(seq, skip, limit) ==
    SubSeq(seq, skip + 1, IF skip + limit < Len(seq) THEN skip + limit ELSE Len(seq))

\* getErrors on the in-memory array: severity, status and search are applied
InMemoryKeeps(filters, e) ==
    /\ filters.severity # "" => e.severity = filters.severity
    /\ filters.status # "" => e.status = filters.status
    /\ filters.search # "" =>
           \/ Includes(ToLowerCase(e.message), ToLowerCase(filters.search))
           \/ Includes(ToLowerCase(e.file), ToLowerCase(filters.search))

\* getErrors(filters, limit, skip) of a service whose `connected` is isConnected
getErrors(isConnected, docs, filters, limit, skip) ==
    IF isConnected
    THEN LET query == buildQuery(filters)
             Found(doc) == QueryMatches(doc, query)
         IN  SkipLimit(SortNewestFirst(SelectSeq(docs, Found)), skip, limit)
    ELSE LET Kept(e) == InMemoryKeeps(filters, e)
         IN  Slice(SortNewestFirst(SelectSeq(docs, Kept)), skip, limit)

\* both services hold the first n records of the seed data
Load(n) ==
    /\ listing = None
    /\ stored' = SubSeq(Documents, 1, n)
    /\ UNCHANGED listing
    /\ UNCHANGED <<analysisVars, response, streamVars, concurrentVars, storeVars, socketVars,
                   sdkVars, tamboVars>>

\* getErrors is called with the same arguments on both services
GetErrors(filters, limit, skip) ==
    /\ listing = None
    /\ listing' = [filters |-> filters, limit |-> limit, skip |-> skip,
                   mongo |-> getErrors(TRUE, stored, filters, limit, skip),
                   memory |-> getErrors(FALSE, stored, filters, limit, skip)]
    /\ UNCHANGED stored
    /\ UNCHANGED <<analysisVars, response, streamVars, concurrentVars, storeVars, socketVars,
                   sdkVars, tamboVars>>

\* the callers have taken their results
ListReturn ==
    /\ listing # None
    /\ listing' = None
    /\ UNCHANGED stored
    /\ UNCHANGED <<analysisVars, response, streamVars, concurrentVars, storeVars, socketVars,
                   sdkVars, tamboVars>>

NextList ==
    \/ \E n \in 0..Len(Documents) : Load(n)
    \/ \E filters \in Filters : \E limit \in {2, 50} : \E skip \in {0, 1} :
           GetErrors(filters, limit, skip)
    \/ ListReturn

SpecList == Init /\ [][NextList]_vars

(***************************************************************************)
(* Properties                                                              *)
(***************************************************************************)
\* analyzeError has returned a value (its promise is fulfilled)
HasResult == pc = "returned" /\ ~result.threw

\* the file path of the report under analysis contains a sensitive marker
SensitivePath ==
    /\ context.file.t = "string"
    /\ \E marker \in {"checkout", "payment", "auth"} : Includes(context.file.v, marker)

\* the rule types in the order the claim fixes
RuleOrder == <<"null_pointer", "api_timeout", "auth_failure", "db_error", "cors_error",
               "memory_leak", "rate_limit", "websocket_error", "third_party_failure",
               "config_error">>

\* the rules whose pattern matches the text
MatchingRules(text) ==
    {i \in 1..Len(ERROR_PATTERNS) : RegExpTest(ERROR_PATTERNS[i].pattern, text)}

\* the lower-cased concatenation of the message and the stack trace of an /identify request
IdentifyText ==
    ToLowerCase(response.body.errorMessage.v \o " "
                \o (IF response.body.stackTrace = Undefined THEN ""
                    ELSE response.body.stackTrace.v))

\* C1: every answer of identifyErrorType is the type of the first rule, in the
\* fixed order, whose pattern matches the lower-cased message and stack trace,
\* and is unknown exactly when no rule matches; a text matching the
\* api_timeout and the db_error rule (and no rule before them) yields api_timeout.
C1_FirstMatchingRule ==
    (response # None /\ response.route = "identify" /\ response.status = 200) =>
        \E M \in {MatchingRules(IdentifyText)} :
            /\ [i \in 1..Len(ERROR_PATTERNS) |-> ERROR_PATTERNS[i].type] = RuleOrder
            /\ (M = {}) <=> (response.json.type = "unknown")
            /\ M # {} => response.json.type = RuleOrder[Min(M)]
            /\ (2 \in M /\ 4 \in M /\ 1 \notin M) => response.json.type = "api_timeout"

\* C1 witness: a message matching both the api_timeout and the db_error rule was identified
C1_Witness ==
    /\ response # None
    /\ response.route = "identify"
    /\ response.status = 200
    /\ response.body.errorMessage = Str("database Timeout")
    /\ response.json.type = "api_timeout"

\* C2: whenever the report's file path contains checkout, payment or auth, the
\* result of analyzeError has severity critical, whatever the ErrorType.
C2_PathEscalationWins ==
    (pc = "returned" /\ SensitivePath) => (~result.threw /\ result.value.severity = "critical")

\* C2 witness: a cors_error (default medium) under a checkout path came back critical
C2_Witness ==
    /\ HasResult
    /\ context.file = Str("src/checkout/processOrder.ts")
    /\ result.value.errorType = "cors_error"
    /\ result.value.severity = "critical"

\* C3: when the file path is absent or holds no sensitive marker, the severity
\* of the result is the fixed default of its ErrorType (api_timeout high,
\* cors_error medium, ...), whatever the other fields of the report are.
C3_TypeDefault ==
    (pc = "returned" /\ ~SensitivePath) =>
        /\ ~result.threw
        /\ result.value.severity = severityMap[result.value.errorType]
        /\ result.value.errorType = "api_timeout" => result.value.severity = "high"
        /\ result.value.errorType = "cors_error" => result.value.severity = "medium"

\* C3 witness: an api_timeout under a path whose markers differ in case came back high
C3_Witness ==
    /\ HasResult
    /\ context.file = Str("src/Payment/CheckoutForm.tsx")
    /\ result.value.errorType = "api_timeout"
    /\ result.value.severity = "high"

\* C4: getSuggestedComponents returns a non-empty list for every type, the
\* unknown type's list for a type it does not recognise, and the same list as
\* the call before for the same type.
C4_ComponentsTotalAndStable ==
    (response # None /\ response.route = "components" /\ response.status # 400) =>
        /\ response.components.t = "array"
        /\ Len(response.components.v) > 0
        /\ response.type \notin ErrorType =>
               response.components = COMPONENT_MAP.v["unknown"]
        /\ response.previous # None => response.components = response.previous

\* the advice of a result
AdviceOf(r) == [rootCause |-> r.rootCause, explanation |-> r.explanation,
                suggestedFix |-> r.suggestedFix, preventionTips |-> r.preventionTips,
                similarPatterns |-> r.similarPatterns]

\* the advice the template of a type gives for a report
TemplateAdvice(ctx, type) == AdviceOf(analysisTemplates(ctx).v[type].v)

\* C5: when the external call fails, analyzeError raises nothing and returns
\* the template advice of the classified ErrorType.
C5_FallbackOnFailure ==
    (pc = "returned" /\ modelReply # None /\ ReplyFailed(modelReply)) =>
        /\ ~result.threw
        /\ AdviceOf(result.value) = TemplateAdvice(context, result.value.errorType)

\* C5 witness: a reply whose JSON does not parse was answered with the api_timeout template
C5_Witness ==
    /\ HasResult
    /\ modelReply = Resolves(Undefined, Str("{rootCause: Stale cache entry}"))
    /\ result.value.errorType = "api_timeout"
    /\ result.value.suggestedFix.v.confidence = Num(85)

\* C6: suggestedFix.confidence of every result is a number in 0..100.
C6_ConfidenceInRange ==
    pc = "returned" =>
        /\ ~result.threw
        /\ result.value.suggestedFix.t = "object"
        /\ "confidence" \in DOMAIN result.value.suggestedFix.v
        /\ result.value.suggestedFix.v.confidence.t = "number"
        /\ result.value.suggestedFix.v.confidence.v \in 0..100

\* a value is present: neither undefined nor null
Present(x) == x.t \notin {"undefined", "null"}

\* C7: every result is complete: rootCause, explanation, suggestedFix.code,
\* suggestedFix.description, suggestedFix.confidence, preventionTips and
\* similarPatterns are all present.
C7_ResultComplete ==
    pc = "returned" =>
        /\ ~result.threw
        /\ Present(result.value.rootCause)
        /\ Present(result.value.explanation)
        /\ result.value.suggestedFix.t = "object"
        /\ {"code", "description", "confidence"} \subseteq DOMAIN result.value.suggestedFix.v
        /\ \A k \in {"code", "description", "confidence"} :
               Present(result.value.suggestedFix.v[k])
        /\ Present(result.value.preventionTips)
        /\ Present(result.value.similarPatterns)

\* C8: a report whose message is empty or absent is not classified: its
\* ErrorType is unknown, whatever the stack trace, and nothing is raised.
C8_EmptyMessageUnknown ==
    (pc = "returned" /\ context.message \in {Str(""), Undefined, Null}) =>
        (~result.threw /\ result.value.errorType = "unknown")

\* C9: the category of a result is the one category the rule table pairs with
\* the result's ErrorType (frontend for unknown), whatever the strategy, the
\* file path and the external reply.
C9_CategoryOfType ==
    pc = "returned" =>
        /\ ~result.threw
        /\ \A i \in 1..Len(ERROR_PATTERNS) :
               ERROR_PATTERNS[i].type = result.value.errorType =>
                   ERROR_PATTERNS[i].category = result.value.category
        /\ result.value.errorType = "unknown" => result.value.category = "frontend"
        /\ result.value.errorType \in
               {ERROR_PATTERNS[i].type : i \in 1..Len(ERROR_PATTERNS)} \cup {"unknown"}

\* the reply whose object names errorType, category, severity and suggestedComponents
OverridingReply == Resolves(Undefined, Str("{" \o MemberTexts[8] \o "}"))

\* C9 witness: a reply naming the category database was answered for an
\* api_timeout with the category backend
C9_Witness ==
    /\ HasResult
    /\ modelReply = OverridingReply
    /\ result.value.errorType = "api_timeout"
    /\ result.value.category = "backend"

\* C10: two analyzeError runs on the same report agree on errorType, category,
\* severity and suggestedComponents, whatever the strategy and the external reply.
C10_ReportDeterminesClassification ==
    (pc = "returned" /\ prev # None /\ prev.context = context) =>
        /\ ~result.threw
        /\ result.value.errorType = prev.errorType
        /\ result.value.category = prev.category
        /\ result.value.severity = prev.severity
        /\ result.value.suggestedComponents = prev.suggestedComponents

\* C10 witness: the second run on a report got a reply naming other values for
\* the four fields, the first run having returned
C10_Witness ==
    /\ HasResult
    /\ prev # None
    /\ prev.context = context
    /\ modelReply = OverridingReply
    /\ result.value.severity = "critical"
    /\ result.value.errorType = "null_pointer"

\* the events a finished /stream answer consists of
IsProgress(e) == "step" \in DOMAIN e /\ e.step # "complete"
IsComplete(e) == "step" \in DOMAIN e /\ e.step = "complete" /\ "analysis" \in DOMAIN e
IsDone(e) == "done" \in DOMAIN e

\* C11: a /stream request that carries a message is answered with the progress
\* markers identify, analyze, similar, fix, components in this order, then one
\* complete event with the analysis, then the done marker as the last event,
\* and the stream is closed; while the handler runs, what it has written is a
\* prefix of that sequence.
C11_StreamOrder ==
    (stream.pc # "idle" /\ Truthy(stream.body.errorMessage)) =>
        /\ \A k \in 1..Len(stream.written) :
               \/ k <= 5 /\ IsProgress(stream.written[k])
                         /\ stream.written[k].step =
                                <<"identify", "analyze", "similar", "fix", "components">>[k]
               \/ k = 6 /\ IsComplete(stream.written[k])
               \/ k = 7 /\ IsDone(stream.written[k])
        /\ stream.ended <=> Len(stream.written) = 7
        /\ stream.pc = "closed" => stream.ended

\* C12: every analyzeError call that waits for the external service
\* eventually returns, even when the service never responds.
C12_EventuallyReturns ==
    \A r \in Requests : (calls[r].pc = "awaiting") ~> (calls[r].pc = "returned")

\* the first balanced {...} block of a text: from the first opening brace to
\* the first position where as many braces have closed as have opened
FirstBalanced(text) ==
    LET start == IndexFrom(text, "{", 1)
        Balanced(j) == Cardinality({k \in start..j : CharAt(text, k) = "{"})
                       = Cardinality({k \in start..j : CharAt(text, k) = "}"})
    IN  IF start = 0 \/ ~\E j \in start..Len(text) : Balanced(j) THEN ""
        ELSE SubSeq(text, start,
                    CHOOSE j \in start..Len(text) :
                        Balanced(j) /\ \A i \in start..(j - 1) : ~Balanced(i))

\* C13: when the service's text is one JSON object with prose before or after
\* it, the advice of the result is that of the first balanced {...} block of
\* the text, whatever the prose contains.
C13_FirstBalancedBlock ==
    (pc = "returned" /\ modelReply \in ProseReplies) =>
        \E block \in {JSONParse(FirstBalanced(modelReply.output.v))} :
            /\ block.ok
            /\ ~result.threw
            /\ \A k \in DOMAIN block.v.v \cap
                        {"rootCause", "explanation", "suggestedFix", "preventionTips",
                         "similarPatterns"} :
                   result.value[k] = block.v.v[k]

\* what the report of call r yields when it is run alone
Alone(ctx) ==
    [errorType |-> Identified[ctx.message, ctx.stack].type,
     category |-> Identified[ctx.message, ctx.stack].category,
     severity |-> calculateSeverity(Identified[ctx.message, ctx.stack].type, ctx),
     suggestedComponents |-> getSuggestedComponents(Identified[ctx.message, ctx.stack].type)]

\* C14: under any interleaving of analyzeError calls on the singleton, the
\* errorType, category, severity and components of each call's result, and
\* its advice when the template supplies it, are those its own report yields
\* when run alone.
C14_CallsIndependent ==
    \A r \in Requests : calls[r].pc = "returned" =>
        \E alone \in {Alone(calls[r].context)} :
            /\ ~calls[r].result.threw
            /\ calls[r].result.value.errorType = alone.errorType
            /\ calls[r].result.value.category = alone.category
            /\ calls[r].result.value.severity = alone.severity
            /\ calls[r].result.value.suggestedComponents = alone.suggestedComponents
            /\ (calls[r].reply = None \/ calls[r].reply = Rejects) =>
                   AdviceOf(calls[r].result.value)
                       = TemplateAdvice(calls[r].context, alone.errorType)

\* C14 witness: a call that waited for the service has returned while another
\* call on a report of another type and path is in flight
C14_Witness ==
    \E r, q \in Requests :
        /\ calls[r].pc = "returned"
        /\ calls[r].reply = Rejects
        /\ calls[q].pc = "awaiting"
        /\ calls[r].result.value.errorType = "auth_failure"
        /\ calls[q].context.message = Str("Blocked by CORS policy")
        /\ calls[r].context.file # calls[q].context.file

\* the service runs the template strategy: no API key, no client
TemplateStrategy == ~(service.useRealAI /\ service.bytezClient)

\* C15: under the template strategy every call, of whatever ErrorType and
\* with the file and the line present or absent, raises nothing, makes no
\* external call and returns the template's advice with a
\* suggestedFix.confidence in 0..100.
C15_TemplateAlwaysSucceeds ==
    (pc = "returned" /\ TemplateStrategy) =>
        /\ ~result.threw
        /\ runs = 0
        /\ modelReply = None
        /\ AdviceOf(result.value) = TemplateAdvice(context, result.value.errorType)
        /\ result.value.suggestedFix.v.confidence.t = "number"
        /\ result.value.suggestedFix.v.confidence.v \in 0..100

\* C15 witness: a null_pointer report without file and line got the
\* template's advice, the placeholders standing for the missing fields
C15_Witness ==
    /\ HasResult
    /\ TemplateStrategy
    /\ context.file = Undefined
    /\ context.line = Undefined
    /\ result.value.errorType = "null_pointer"
    /\ Includes(result.value.rootCause.v, "unknown file:unknown line")
    /\ result.value.suggestedFix.v.confidence.v \in 51..100

\* C16: a call invokes the external service at most once; after a failed or
\* unusable reply it has invoked it exactly once and returns the template's
\* advice.
C16_AtMostOneRun ==
    /\ runs \in {0, 1}
    /\ pc = "awaiting" => runs = 1
    /\ (pc = "returned" /\ modelReply # None /\ ReplyFailed(modelReply)) =>
           /\ runs = 1
           /\ ~result.threw
           /\ AdviceOf(result.value) = TemplateAdvice(context, result.value.errorType)

\* C16 witness: a reply without a JSON object was answered with the template
\* after one invocation
C16_Witness ==
    /\ HasResult
    /\ runs = 1
    /\ modelReply = Resolves(Undefined, Str("I could not analyze this error."))
    /\ result.value.errorType = "rate_limit"
    /\ result.value.suggestedFix.v.confidence = Num(90)

\* C17: the components recommended for null_pointer, api_timeout,
\* auth_failure and db_error are exactly those of the README table, in its order.
C17_ReadmeTable ==
    (response # None /\ response.route = "components" /\ response.status = 200) =>
        /\ response.type = "null_pointer" => response.components =
               StrArr(<<"UserJourney", "StackTrace", "SimilarErrors", "SuggestedFix">>)
        /\ response.type = "api_timeout" => response.components =
               StrArr(<<"ErrorTimeline", "InfrastructureHealth", "ImpactMetrics">>)
        /\ response.type = "auth_failure" => response.components =
               StrArr(<<"ImpactMetrics", "UserJourney", "SuggestedFix">>)
        /\ response.type = "db_error" => response.components =
               StrArr(<<"InfrastructureHealth", "ErrorTimeline", "SimilarErrors">>)

\* the records of the array that createError made: those after the seeds
CreatedInMemory(errors) ==
    {i \in DOMAIN errors : \A k \in DOMAIN mockErrors : errors[i].id # mockErrors[k].id}

\* request p has called createError in this step, on the array
CreateErrorInMemory(p) ==
    ~connected /\ posts[p].pc = "idle" /\ posts'[p].pc = "import"

\* C18: with the in-memory store, no two records made by createError share a
\* fingerprint; a createError call whose fingerprint is that of a stored
\* record adds no record, adds exactly 1 to that record's occurrences, sets
\* its lastSeen to the time of the call and reports isNew = false; any other
\* call adds exactly one record, with occurrences = 1, and reports isNew =
\* true; no other step changes the records.
C18_DedupStep ==
    /\ \A i, j \in CreatedInMemory(inMemoryErrors') :
           i # j => inMemoryErrors'[i].fingerprint # inMemoryErrors'[j].fingerprint
    /\ (listening /\ \A p \in PostIds : ~CreateErrorInMemory(p)) =>
           inMemoryErrors' = inMemoryErrors
    /\ \A p \in PostIds : CreateErrorInMemory(p) =>
        \E matching \in {{i \in DOMAIN inMemoryErrors :
                             inMemoryErrors[i].fingerprint = posts'[p].fingerprint}} :
            IF matching # {}
            THEN /\ Len(inMemoryErrors') = Len(inMemoryErrors)
                 /\ \E i \in matching :
                     /\ inMemoryErrors'[i].occurrences = inMemoryErrors[i].occurrences + 1
                     /\ inMemoryErrors'[i].lastSeen = posts'[p].now
                     /\ inMemoryErrors'[i].lastSeen > inMemoryErrors[i].lastSeen
                     /\ inMemoryErrors'[i].id = inMemoryErrors[i].id
                     /\ \A k \in DOMAIN inMemoryErrors :
                            k # i => inMemoryErrors'[k] = inMemoryErrors[k]
                 /\ posts'[p].created.isNew = FALSE
            ELSE /\ Len(inMemoryErrors') = Len(inMemoryErrors) + 1
                 /\ SubSeq(inMemoryErrors', 1, Len(inMemoryErrors)) = inMemoryErrors
                 /\ inMemoryErrors'[Len(inMemoryErrors')].occurrences = 1
                 /\ inMemoryErrors'[Len(inMemoryErrors')].fingerprint = posts'[p].fingerprint
                 /\ posts'[p].created.isNew = TRUE

C18_Dedup == [][C18_DedupStep]_vars

\* C18 witness: " timeout" was submitted after "Timeout" and was counted on
\* its record
C18_Witness ==
    /\ ~connected
    /\ \E p \in PostIds :
        /\ posts[p].pc = "import"
        /\ posts[p].body.message = Str(" timeout")
        /\ posts[p].created.isNew = FALSE
        /\ posts[p].created.error.message = "Timeout"
        /\ posts[p].created.error.occurrences = 2
    /\ Cardinality(CreatedInMemory(inMemoryErrors)) = 1

\* the status of the response request p got
StatusOf(p) == posts[p].trace[Len(posts[p].trace)].status

\* C19: in MongoDB mode, when two createError calls for one fingerprint not
\* seen before have both run, in whatever interleaving, both requests were
\* answered without an error and the collection holds one record of that
\* fingerprint, with occurrences = 2.
C19_ConcurrentCreates ==
    \A p, q \in PostIds :
        (/\ connected
         /\ p # q
         /\ posts[p].pc = "done" /\ posts[q].pc = "done"
         /\ Truthy(posts[p].body.message) /\ Truthy(posts[q].body.message)
         /\ posts[p].fingerprint = posts[q].fingerprint
         /\ submissions = 2) =>
            /\ StatusOf(p) \in {200, 201}
            /\ StatusOf(q) \in {200, 201}
            /\ \E i \in DOMAIN collection :
                /\ collection[i].fingerprint = posts[p].fingerprint
                /\ collection[i].occurrences = 2
                /\ \A k \in DOMAIN collection :
                       collection[k].fingerprint = posts[p].fingerprint => k = i

\* C20: a request without a message is answered 400, and neither broadcast
\* nor createError happens for it; a request for which createError returned
\* is answered by exactly one broadcast followed by the response: new_error
\* and 201 for a new record, error_updated and 200 for a deduplicated one;
\* nothing is sent before.
C20_BroadcastThenRespond ==
    /\ submissions = Cardinality({p \in PostIds :
                          posts[p].pc # "idle" /\ Truthy(posts[p].body.message)})
    /\ \A p \in PostIds :
        /\ posts[p].pc # "done" => posts[p].trace = << >>
        /\ (posts[p].pc = "done" /\ ~Truthy(posts[p].body.message)) =>
               /\ posts[p].trace = <<[kind |-> "response", status |-> 400]>>
               /\ posts[p].created = None
        /\ (posts[p].pc = "done" /\ posts[p].created # None) =>
               /\ Len(posts[p].trace) = 2
               /\ posts[p].trace[1].kind = "broadcast"
               /\ posts[p].trace[2].kind = "response"
               /\ posts[p].trace[1].type =
                      (IF posts[p].created.isNew THEN "new_error" ELSE "error_updated")
               /\ posts[p].trace[2].status = (IF posts[p].created.isNew THEN 201 ELSE 200)

\* C20 witness: a submission deduplicated into an existing record was
\* announced as error_updated and answered 200
C20_Witness ==
    \E p \in PostIds :
        /\ posts[p].pc = "done"
        /\ posts[p].created # None
        /\ ~posts[p].created.isNew
        /\ posts[p].trace[1].type = "error_updated"
        /\ posts[p].trace[1].data.occurrences = 2
        /\ posts[p].trace[2].status = 200

\* the socket has had its 'connection' event and neither 'close' nor 'error' yet
Attached(ws) == readyState[ws] # "NONE" /\ ws \notin ended

\* the broadcast messages a step writes to a socket
NewlySent(ws) == {message \in outbox'[ws] \ outbox[ws] : message.n > 0}

C21_Step ==
    \A ws \in Sockets :
        IF broadcasts' # broadcasts
        THEN /\ NewlySent(ws) \subseteq {message \in outbox'[ws] : message.n = broadcasts'}
             /\ NewlySent(ws) # {} <=> (Attached(ws) /\ readyState[ws] = "OPEN")
        ELSE NewlySent(ws) = {}

\* C21: a broadcastError call writes its message to exactly the sockets that
\* have connected, have had neither a close nor an error event, and are OPEN;
\* no other step writes a broadcast message, so a socket that has disconnected
\* is never sent one.
C21_BroadcastToOpenClients == [][C21_Step]_vars

\* a broadcast went out after one of two connected sockets had disconnected:
\* the socket that stayed was sent the message, the other was not
C21_Witness ==
    /\ broadcasts = 1
    /\ \E kept, left \in Sockets :
        /\ kept # left
        /\ kept \in clients
        /\ {message.n : message \in outbox[kept]} = {0, 1}
        /\ left \in ended
        /\ outbox[left] = {Welcome}

\* what the configured hook returns for the payload of a capture
HookReturn(kind) == beforeSend(config.beforeSend, Payload(ErrorData(kind), breadcrumbs))

\* the step sent nothing if the hook returned null, else what the hook returned
HookDecides(kind) ==
    config.beforeSend # "none" =>
        IF HookReturn(kind) = Null THEN fetches' = << >>
        ELSE /\ fetches' # << >>
             /\ \A i \in 1..Len(fetches') : fetches'[i] = HookReturn(kind).v

\* C22: when the configured beforeSend hook returns null, a capture sends
\* nothing; when it returns a payload, that payload is what is sent.
C22_HookCancels ==
    [][/\ CaptureError => HookDecides("captureError")
       /\ \A kind \in {"error", "unhandledrejection"} : WindowEvent(kind) => HookDecides(kind)
      ]_vars

\* C23: the client never has more than one set of listeners; a window error or
\* rejection event yields at most one report, and none while the client is not
\* initialized; a click or popstate event adds no breadcrumb then either.
C23_OneHandlerSet ==
    [][/\ listeners' <= 1
       /\ \A kind \in {"error", "unhandledrejection"} :
              WindowEvent(kind) =>
                  /\ Len(fetches') <= 1
                  /\ ~initialized => fetches' = << >>
       /\ \A kind \in {"popstate", "click"} :
              TrackEvent(kind) => (~initialized => breadcrumbs' = breadcrumbs)
      ]_vars

\* the last n entries of a sequence, in order
LastN(seq, n) == IF Len(seq) <= n THEN seq ELSE SubSeq(seq, Len(seq) - n + 1, Len(seq))

C24_Buffer ==
    config # None =>
        /\ Len(breadcrumbs) <= config.maxBreadcrumbs
        /\ breadcrumbs = LastN(added, config.maxBreadcrumbs)

C24_Step ==
    /\ (CaptureError \/ \E kind \in {"error", "unhandledrejection"} : WindowEvent(kind))
           => \A i \in 1..Len(fetches') : fetches'[i].breadcrumbs = breadcrumbs
    /\ breadcrumbs' # breadcrumbs => fetches' = fetches

\* C24: the buffer never holds more than maxBreadcrumbs entries and holds the
\* most recently added ones in the order they were added; a request body
\* carries the buffer as it was when captureError ran, and adding breadcrumbs
\* afterwards does not change it.
C24_RecentBreadcrumbs == [](C24_Buffer) /\ [][C24_Step]_vars

\* the oldest breadcrumb has been evicted, and the body of an earlier capture
\* still carries the buffer of its time
C24_Witness ==
    /\ config # None
    /\ Len(added) > config.maxBreadcrumbs
    /\ fetches # << >>
    /\ fetches[1].breadcrumbs # << >>
    /\ fetches[1].breadcrumbs # breadcrumbs

\* C25: once disconnect() has been called, and until the application calls
\* connect() again, the client constructs no WebSocket.
C25_NoReconnectAfterDisconnect ==
    [][(disconnected /\ disconnected') =>
           \A socket \in TamboSockets : wsState[socket] = "NONE" => wsState'[socket] = "NONE"
      ]_vars

\* C26: at most one WebSocket of the client is connecting or open, and the
\* subscriber's callback runs at most once for a server message.
C26_OneLiveSocket ==
    /\ Cardinality({socket \in TamboSockets : wsState[socket] \in {"CONNECTING", "OPEN"}}) <= 1
    /\ delivered <= 1

\* C27: for the same stored records, filters, limit and skip, getErrors
\* returns the same records in the same order from the MongoDB-backed service
\* and from the in-memory fallback.
C27_SameListing == listing # None => listing.mongo = listing.memory

====
